---- MODULE Spec2Model ----
(***************************************************************************)
(* Minesweeper solver core: the Board abstraction (tiles, mine set,        *)
(* reveal / flag / unflag, lazy mine placement, first-click relocation,    *)
(* load_from_file), the inference engines and the strategy coordinator     *)
(* (step / solve_step), as state machines over one board.                  *)
(***************************************************************************)
EXTENDS Integers, Sequences, FiniteSets, TLC

\* ------------------------------------------------------------------ bounds
Rows == 2
Cols == 3
\* largest mine count of a constructed or loaded board
MaxMines == 2
\* most flags the model places at a time
MaxFlags == 2

\* --------------------------------------------------------------- constants
UNKNOWN == -1
FLAGGED == -2
\* the value reveal writes on a mine
MINE == 9
\* None, for total_mines
NoTotal == -1
\* None, for hit_mine_at and for "no cell"
NoCell == <<-1, -1>>

Cells == (0 .. Rows - 1) \X (0 .. Cols - 1)

InBounds(i, j) == 0 <= i /\ i < Rows /\ 0 <= j /\ j < Cols

\* one coordinate beyond each of the four bounds the code tests
OutOfBounds == {<<-1, 0>>, <<0, -1>>, <<Rows, 0>>, <<0, Cols>>}

Coords == Cells \cup OutOfBounds

\* row-major position of a cell: the order of `for i in range(rows): for j in range(cols)`
Rank(c) == c[1] * Cols + c[2]

\* tuple comparison, as Python compares (i, j) tuples
TupleLess(c, d) == c[1] < d[1] \/ (c[1] = d[1] /\ c[2] < d[2])

Max(a, b) == IF a >= b THEN a ELSE b

Min(a, b) == IF a <= b THEN a ELSE b

\* ------------------------------------------------------------------- Board
Offsets ==
  << <<-1, -1>>, <<-1, 0>>, <<-1, 1>>, <<0, -1>>, <<0, 1>>, <<1, -1>>, <<1, 0>>, <<1, 1>> >>

\* Board.neighbors: the in-bounds neighbours, in the order the loops produce them
neighbors(i, j) ==
  LET all == [k \in 1 .. 8 |-> <<i + Offsets[k][1], j + Offsets[k][2]>>]
      inside(c) == InBounds(c[1], c[2])
  IN  SelectSeq(all, inside)

SeqRange(s) == {s[k] : k \in 1 .. Len(s)}

NeighborSet(i, j) == SeqRange(neighbors(i, j))

\* Board.__init__
NewBoard(has_bombs, bombs, total_mines, ensure_first_click_zero) ==
  LET tm == IF ~has_bombs /\ total_mines = NoTotal THEN NoTotal
            ELSE IF total_mines # NoTotal THEN total_mines
            ELSE Cardinality(bombs)
      deferred_generation == ~has_bombs /\ (IF tm = NoTotal THEN 0 ELSE tm) > 0
  IN  [ tiles |-> [c \in Cells |-> UNKNOWN],
        bombs |-> IF has_bombs THEN bombs ELSE {},
        revealed_count |-> 0,
        flagged_count |-> 0,
        game_over |-> FALSE,
        hit_mine_at |-> NoCell,
        first_click_zero |-> ensure_first_click_zero,
        first_reveal_done |-> FALSE,
        total_mines |-> tm,
        mines_initialized |-> ~deferred_generation ]

\* rng.sample(candidates, k): k distinct candidates. The random outcome is the
\* argument pref: the candidates in pref are drawn first, then the others in
\* row-major order, so every k-subset of the candidates is some outcome.
Sample(candidates, k, pref) ==
  LET key(c) == IF c \in pref THEN Rank(c) ELSE Rows * Cols + Rank(c)
  IN  {c \in candidates : Cardinality({d \in candidates : key(d) < key(c)}) < k}

\* initialize_mines that draws from every cell, the safe zone included
initialize_mines_no_safe_zone(b, start_i, start_j, pref) ==
  IF b.mines_initialized THEN [b |-> b, raised |-> FALSE]
  ELSE IF b.total_mines = NoTotal THEN [b |-> b, raised |-> TRUE]
  ELSE
    LET candidates == Cells
    IN  IF Cardinality(candidates) < b.total_mines
        THEN [b |-> b, raised |-> TRUE]
        ELSE [b |-> [b EXCEPT !.bombs = Sample(candidates, b.total_mines, pref),
                               !.mines_initialized = TRUE],
              raised |-> FALSE]

\* initialize_mines that places as many mines as there are candidates when the
\* board is too dense, instead of raising
initialize_mines_never_raises(b, start_i, start_j, pref) ==
  IF b.mines_initialized THEN [b |-> b, raised |-> FALSE]
  ELSE
    LET zone1 == IF b.first_click_zero
                 THEN {<<start_i, start_j>>} \cup NeighborSet(start_i, start_j)
                 ELSE {<<start_i, start_j>>}
        candidates == IF Cardinality(Cells \ zone1) < b.total_mines
                      THEN Cells \ {<<start_i, start_j>>} ELSE Cells \ zone1
    IN  [b |-> [b EXCEPT !.bombs = Sample(candidates, Min(b.total_mines, Cardinality(candidates)), pref),
                         !.mines_initialized = TRUE],
         raised |-> FALSE]

\* Board._initialize_mines: [b |-> the board after the call, raised |-> ValueError]
initialize_mines(b, start_i, start_j, pref) ==
  IF b.mines_initialized THEN [b |-> b, raised |-> FALSE]
  ELSE IF b.total_mines = NoTotal THEN [b |-> b, raised |-> TRUE]
  ELSE
    LET zone1 == IF b.first_click_zero
                 THEN {<<start_i, start_j>>} \cup NeighborSet(start_i, start_j)
                 ELSE {<<start_i, start_j>>}
        cand1 == Cells \ zone1
        relax == Cardinality(cand1) < b.total_mines
        candidates == IF relax THEN Cells \ {<<start_i, start_j>>} ELSE cand1
    IN  IF Cardinality(candidates) < b.total_mines
        THEN [b |-> b, raised |-> TRUE]
        ELSE [b |-> [b EXCEPT !.bombs = Sample(candidates, b.total_mines, pref),
                               !.mines_initialized = TRUE],
              raised |-> FALSE]

\* Board._relocate_first_click_bombs: the board after the call
relocate_first_click_bombs(b, start_i, start_j, pref) ==
  LET zone1 == IF b.first_click_zero
               THEN {<<start_i, start_j>>} \cup NeighborSet(start_i, start_j)
               ELSE {<<start_i, start_j>>}
      inzone1 == b.bombs \cap zone1
      cand1 == (Cells \ b.bombs) \ zone1
      relax == Cardinality(cand1) < Cardinality(inzone1)
      bombs_in_zone == IF relax THEN b.bombs \cap {<<start_i, start_j>>} ELSE inzone1
      candidates == IF relax THEN (Cells \ b.bombs) \ {<<start_i, start_j>>} ELSE cand1
  IN  IF inzone1 = {} THEN b
      ELSE IF Cardinality(candidates) < Cardinality(bombs_in_zone) THEN b
      ELSE [b EXCEPT !.bombs = (b.bombs \ bombs_in_zone)
                                 \cup Sample(candidates, Cardinality(bombs_in_zone), pref)]

\* Board.count_adjacent_mines
count_adjacent_mines(b, i, j) == Cardinality(NeighborSet(i, j) \cap b.bombs)

\* Board.get_tile
get_tile(b, i, j) == IF ~InBounds(i, j) THEN UNKNOWN ELSE b.tiles[<<i, j>>]

\* Board.is_revealed
is_revealed(b, i, j) == get_tile(b, i, j) >= 0 /\ get_tile(b, i, j) # FLAGGED

\* Board.is_flagged
is_flagged(b, i, j) == get_tile(b, i, j) = FLAGGED

\* Board.is_unknown
is_unknown(b, i, j) == get_tile(b, i, j) = UNKNOWN

\* Board.unknown_cells
unknown_cells(b) == {c \in Cells : is_unknown(b, c[1], c[2])}

\* Board.revealed_cells
revealed_cells(b) == {c \in Cells : is_revealed(b, c[1], c[2])}

\* Board.flagged_count
flagged_count(b) == b.flagged_count

\* Board.total_mines
total_mines(b) == b.total_mines

\* remaining_mines without the clamp at 0
remaining_mines_unclamped(b) ==
  IF b.total_mines = NoTotal THEN NoTotal ELSE b.total_mines - b.flagged_count

\* Board.remaining_mines (NoTotal for None)
remaining_mines(b) ==
  IF b.total_mines = NoTotal THEN NoTotal ELSE Max(0, b.total_mines - b.flagged_count)

\* Board.is_finished
is_finished(b) == b.revealed_count + Cardinality(b.bombs) = Rows * Cols

\* the end of Board.reveal, on the board b with its mines in place: the tile
\* shows the mine or the number of mines around it
reveal_tile(b, i, j) ==
  IF <<i, j>> \in b.bombs
  THEN [b |-> [b EXCEPT !.tiles[<<i, j>>] = MINE,
                        !.revealed_count = @ + 1,
                        !.game_over = TRUE,
                        !.hit_mine_at = <<i, j>>,
                        !.first_reveal_done = TRUE],
        ret |-> TRUE, raised |-> FALSE]
  ELSE [b |-> [b EXCEPT !.tiles[<<i, j>>] = count_adjacent_mines(b, i, j),
                        !.revealed_count = @ + 1,
                        !.first_reveal_done = TRUE],
        ret |-> TRUE, raised |-> FALSE]

\* the middle of Board.reveal, with init the outcome of _initialize_mines: on
\* the first reveal a mine under the clicked cell is moved away
reveal_placed(b, i, j, pref, init) ==
  IF init.raised THEN [b |-> b, ret |-> FALSE, raised |-> TRUE]
  ELSE IF ~init.b.first_reveal_done /\ init.b.first_click_zero /\ <<i, j>> \in init.b.bombs
  THEN reveal_tile(relocate_first_click_bombs(init.b, i, j, pref), i, j)
  ELSE reveal_tile(init.b, i, j)

\* reveal without the test that the tile is UNKNOWN
reveal_any_tile(b, i, j, pref) ==
  IF ~InBounds(i, j) THEN [b |-> b, ret |-> FALSE, raised |-> FALSE]
  ELSE reveal_placed(b, i, j, pref, initialize_mines(b, i, j, pref))

\* Board.reveal: [b |-> the board after the call, ret |-> the value returned,
\* raised |-> the call ended in ValueError instead of returning]
reveal(b, i, j, pref) ==
  IF ~InBounds(i, j) THEN [b |-> b, ret |-> FALSE, raised |-> FALSE]
  ELSE IF b.tiles[<<i, j>>] # UNKNOWN THEN [b |-> b, ret |-> FALSE, raised |-> FALSE]
  ELSE reveal_placed(b, i, j, pref, initialize_mines(b, i, j, pref))

\* flag without the test that the tile is UNKNOWN
flag_any_tile(b, i, j) ==
  IF ~InBounds(i, j) THEN [b |-> b, ret |-> FALSE]
  ELSE [b |-> [b EXCEPT !.tiles[<<i, j>>] = FLAGGED, !.flagged_count = @ + 1],
        ret |-> TRUE]

\* Board.flag
flag(b, i, j) ==
  IF ~InBounds(i, j) THEN [b |-> b, ret |-> FALSE]
  ELSE IF b.tiles[<<i, j>>] # UNKNOWN THEN [b |-> b, ret |-> FALSE]
  ELSE [b |-> [b EXCEPT !.tiles[<<i, j>>] = FLAGGED, !.flagged_count = @ + 1],
        ret |-> TRUE]

\* unflag that leaves flagged_count as it was
unflag_keep_count(b, i, j) ==
  IF ~InBounds(i, j) THEN [b |-> b, ret |-> FALSE]
  ELSE IF b.tiles[<<i, j>>] # FLAGGED THEN [b |-> b, ret |-> FALSE]
  ELSE [b |-> [b EXCEPT !.tiles[<<i, j>>] = UNKNOWN], ret |-> TRUE]

\* Board.unflag
unflag(b, i, j) ==
  IF ~InBounds(i, j) THEN [b |-> b, ret |-> FALSE]
  ELSE IF b.tiles[<<i, j>>] # FLAGGED THEN [b |-> b, ret |-> FALSE]
  ELSE [b |-> [b EXCEPT !.tiles[<<i, j>>] = UNKNOWN, !.flagged_count = @ - 1],
        ret |-> TRUE]

\* ------------------------------------------------------------- constraints
\* unknown_neighbors that takes every tile not revealed, the flagged ones too
unknown_neighbors_or_flagged(b, c) == {n \in NeighborSet(c[1], c[2]) : b.tiles[n] < 0}

\* the UNKNOWN neighbours of a cell
unknown_neighbors(b, c) == {n \in NeighborSet(c[1], c[2]) : is_unknown(b, n[1], n[2])}

\* the number of FLAGGED neighbours of a cell
flagged_neighbors(b, c) == Cardinality({n \in NeighborSet(c[1], c[2]) : is_flagged(b, n[1], n[2])})

\* csp.Constraint.__init__: the requirement is clamped to 0 .. |unknown_neighbors|
Constraint(center, required_mines, unknown) ==
  [center |-> center, U |-> unknown, r |-> Max(0, Min(required_mines, Cardinality(unknown)))]

\* CSPEngine.extract_constraints: one constraint per revealed tile 0..8 (and any
\* larger number a file put there) with an unknown neighbour
csp_extract_constraints(b) ==
  {Constraint(c, b.tiles[c] - flagged_neighbors(b, c), unknown_neighbors(b, c)) :
     c \in {d \in revealed_cells(b) :
              ~(b.tiles[d] < 0 \/ b.tiles[d] = 9) /\ unknown_neighbors(b, d) # {}}}

\* sat._extract_constraints: revealed zeros are skipped as well
sat_extract_constraints(b) ==
  {Constraint(c, b.tiles[c] - flagged_neighbors(b, c), unknown_neighbors(b, c)) :
     c \in {d \in revealed_cells(b) :
              ~(b.tiles[d] <= 0 \/ b.tiles[d] = 9) /\ unknown_neighbors(b, d) # {}}}

\* montecarlo._extract_constraints
mc_extract_constraints(b) ==
  {Constraint(c, b.tiles[c] - flagged_neighbors(b, c), unknown_neighbors(b, c)) :
     c \in {d \in revealed_cells(b) :
              ~(b.tiles[d] <= 0 \/ b.tiles[d] = 9) /\ unknown_neighbors(b, d) # {}}}

\* --------------------------------------------------------------------- CSP
\* _subset_implications with the two conclusions exchanged: the extra cells are
\* mines when the requirements are equal and safe when they differ by |extra|
subset_implications_exchanged(smaller, larger) ==
  LET extra_cells == larger.U \ smaller.U
      required_diff == larger.r - smaller.r
      none == [safe |-> {}, mines |-> {}]
  IN  IF ~(smaller.U \subseteq larger.U) \/ extra_cells = {} THEN none
      ELSE IF required_diff = 0 THEN [safe |-> {}, mines |-> extra_cells]
      ELSE IF required_diff = Cardinality(extra_cells) THEN [safe |-> extra_cells, mines |-> {}]
      ELSE none

\* CSPEngine._subset_implications
subset_implications(smaller, larger) ==
  LET small_cells == smaller.U
      large_cells == larger.U
      extra_cells == large_cells \ small_cells
      required_diff == larger.r - smaller.r
      none == [safe |-> {}, mines |-> {}]
  IN  IF small_cells = {} \/ large_cells = {} \/ small_cells = large_cells THEN none
      ELSE IF ~(small_cells \subseteq large_cells) THEN none
      ELSE IF extra_cells = {} THEN none
      ELSE IF required_diff < 0 \/ required_diff > Cardinality(extra_cells) THEN none
      ELSE IF required_diff = 0 THEN [safe |-> extra_cells, mines |-> {}]
      ELSE IF required_diff = Cardinality(extra_cells) THEN [safe |-> {}, mines |-> extra_cells]
      ELSE none

\* _infer_from_subset_relationships that tests each pair of constraints in one
\* order only, the earlier tile as the smaller
infer_from_subset_relationships_one_order(constraints) ==
  LET cs == {k \in constraints : k.U # {}}
      found == {subset_implications(p[1], p[2]) :
                  p \in {q \in cs \X cs : Rank(q[1].center) < Rank(q[2].center)}}
  IN  [safe |-> UNION {f.safe : f \in found}, mines |-> UNION {f.mines : f \in found}]

\* CSPEngine._infer_from_subset_relationships: every ordered pair of constraints
infer_from_subset_relationships(constraints) ==
  LET cs == {k \in constraints : k.U # {}}
      found == {subset_implications(p[1], p[2]) : p \in {q \in cs \X cs : q[1] # q[2]}}
  IN  [safe |-> UNION {f.safe : f \in found}, mines |-> UNION {f.mines : f \in found}]

\* CSPEngine.infer / csp.infer: the two lists, as sets
csp_infer(b) ==
  LET constraints == csp_extract_constraints(b)
      sub == infer_from_subset_relationships(constraints)
  IN  [safe |-> UNION {k.U : k \in {x \in constraints : x.U # {} /\ x.r = 0}} \cup sub.safe,
       mines |-> UNION {k.U : k \in {x \in constraints :
                                        x.U # {} /\ x.r # 0 /\ x.r = Cardinality(x.U)}}
                 \cup sub.mines]

\* --------------------------------------------------------------------- SAT
MAX_COMPONENT_SIZE == 18

MAX_ENUMERATIONS == 200000

\* the keys of the adjacency map: the cells that share a constraint with another cell
Linked(constraints) == UNION {k.U : k \in {x \in constraints : Cardinality(x.U) >= 2}}

\* adjacency[cell]
Adjacent(constraints, cell) == UNION {k.U \ {cell} : k \in {x \in constraints : cell \in x.U}}

RECURSIVE Flood(_, _)
\* the flood from a block over the adjacency
Flood(constraints, block) ==
  LET more == block \cup UNION {Adjacent(constraints, c) : c \in block}
  IN  IF more = block THEN block ELSE Flood(constraints, more)

\* sat._build_components: the connected blocks of linked cells
build_components(constraints) == {Flood(constraints, {c}) : c \in Linked(constraints)}

\* the constraints that meet a component, cut down to it
relevant_constraints(component, constraints) ==
  {[center |-> k.center, U |-> k.U \cap component, r |-> k.r] :
     k \in {x \in constraints : x.U \cap component # {}}}

\* len(constraint_membership[cell])
Degree(relevant, cell) == Cardinality({k \in relevant : cell \in k.U})

\* sorted(cells, key=degree, reverse=True): more constrained cells first; cells
\* of equal degree keep the order of list(component), taken as row-major
ordered_cells(component, relevant) ==
  LET before(d, c) == \/ Degree(relevant, d) > Degree(relevant, c)
                      \/ Degree(relevant, d) = Degree(relevant, c) /\ Rank(d) < Rank(c)
      pos(c) == 1 + Cardinality({d \in component : before(d, c)})
  IN  [k \in 1 .. Cardinality(component) |-> CHOOSE c \in component : pos(c) = k]

RECURSIVE sat_dfs(_, _, _, _, _, _)
\* the inner dfs of sat._solve_component. env holds ordered_cells and the
\* relevant constraints; required and unassigned are the running counters, by
\* constraint; st is what the search has recorded (cell_values,
\* assignment_count, abort). The counters are restored after each value, so a
\* value is tried on the counters of the caller; the loop over the cell's
\* constraints stops at the first infeasible one, which decides the same as
\* testing them all.
sat_dfs(env, index, current, required, unassigned, st) ==
  IF st.abort THEN st
  ELSE IF index = Len(env.cells) + 1
  THEN LET count == st.assignment_count + 1
           values == [k \in 1 .. Len(env.cells) |-> st.cell_values[k] \cup {current[k]}]
       IN  [cell_values |-> values,
            assignment_count |-> count,
            abort |-> \/ count >= MAX_ENUMERATIONS
                      \/ \A k \in 1 .. Len(env.cells) : Cardinality(values[k]) = 2]
  ELSE
    LET cell == env.cells[index]
        participating == {k \in env.relevant : cell \in k.U}
        try(value, s) ==
          LET req == [k \in env.relevant |->
                        IF k \in participating /\ value = 1 THEN required[k] - 1 ELSE required[k]]
              una == [k \in env.relevant |->
                        IF k \in participating THEN unassigned[k] - 1 ELSE unassigned[k]]
              feasible == \A k \in participating : ~(req[k] < 0 \/ req[k] > una[k])
          IN  IF feasible
              THEN sat_dfs(env, index + 1, [current EXCEPT ![index] = value], req, una, s)
              ELSE s
        after0 == try(0, st)
    IN  IF after0.abort THEN after0 ELSE try(1, after0)

\* _solve_component that takes a cell for safe (a mine) as soon as one satisfying
\* assignment has it 0 (1)
solve_component_some_assignment(component, constraints) ==
  LET relevant == relevant_constraints(component, constraints)
      sols == {a \in [component -> {0, 1}] :
                 \A k \in relevant : Cardinality({c \in k.U : a[c] = 1}) = k.r}
  IN  IF component = {} \/ Cardinality(component) > MAX_COMPONENT_SIZE \/ relevant = {}
      THEN [safe |-> {}, mines |-> {}]
      ELSE [safe |-> {c \in component : \E a \in sols : a[c] = 0},
            mines |-> {c \in component : \A a \in sols : a[c] = 1}]

\* sat._solve_component
solve_component(component, constraints) ==
  LET relevant == relevant_constraints(component, constraints)
      cells == ordered_cells(component, relevant)
      env == [cells |-> cells, relevant |-> relevant]
      start == [cell_values |-> [k \in 1 .. Len(cells) |-> {}],
                assignment_count |-> 0, abort |-> FALSE]
      found == sat_dfs(env, 1, [k \in 1 .. Len(cells) |-> 0],
                       [k \in relevant |-> Max(0, Min(k.r, Cardinality(k.U)))],
                       [k \in relevant |-> Cardinality(k.U)], start)
      none == [safe |-> {}, mines |-> {}]
  IN  IF component = {} \/ Cardinality(component) > MAX_COMPONENT_SIZE THEN none
      ELSE IF relevant = {} THEN none
      ELSE IF found.assignment_count = 0 THEN none
      ELSE [safe |-> {cells[k] : k \in {x \in 1 .. Len(cells) : found.cell_values[x] = {0}}},
            mines |-> {cells[k] : k \in {x \in 1 .. Len(cells) : found.cell_values[x] = {1}}}]

\* sat.infer: the two lists, as sets
sat_infer(b) ==
  LET constraints == sat_extract_constraints(b)
      components == build_components(constraints)
      solved == {solve_component(comp, constraints) : comp \in components}
  IN  IF constraints = {} THEN [safe |-> {}, mines |-> {}]
      ELSE [safe |-> UNION {f.safe : f \in solved}, mines |-> UNION {f.mines : f \in solved}]

\* ------------------------------------------------------ iteration order
\* The order in which Python walks a set of cells, or a list made from one, is
\* fixed by the hashes of the cells and not by the program; the model takes it as
\* an input of the call and follows one of two orders.
ScanOrders == {"rowmajor", "reverse"}

OrdKey(ord, c) == IF ord = "rowmajor" THEN Rank(c) ELSE 0 - Rank(c)

\* list(S): the cells of S in the scan order
SeqOf(S, ord) ==
  [k \in 1 .. Cardinality(S) |->
     CHOOSE c \in S : Cardinality({d \in S : OrdKey(ord, d) < OrdKey(ord, c)}) = k - 1]

\* ------------------------------------------------------------- Monte Carlo
\* the sample count of compute_probabilities; the program's default is 256
DefaultSamples == 2

DefaultMaxComponent == 18

\* montecarlo._build_components
mc_build_components(constraints) == {Flood(constraints, {c}) : c \in Linked(constraints)}

\* montecarlo._constraints_for_component
constraints_for_component(component, constraints) ==
  {[center |-> k.center, U |-> k.U \cap component, r |-> k.r] :
     k \in {x \in constraints : x.U \cap component # {}}}

\* the number of mines an assignment puts on the cells of a constraint
MinesOn(a, k) == Cardinality({c \in k.U : a[c] = 1})

\* montecarlo._random_assignment: the assignments a call can return. The search
\* tries the two values of each cell in a random order, prunes a value only when
\* a constraint can no longer be met, and backtracks, so it can end on any
\* assignment that meets every constraint and returns None (here: the empty
\* set) exactly when there is none.
random_assignment(cells, constraints) ==
  {a \in [cells -> {0, 1}] : \A k \in constraints : MinesOn(a, k) = k.r}

RECURSIVE mc_assign(_, _, _, _, _)
\* one value tried on the cell at index in the inner assign of
\* montecarlo._random_assignment: the counters of the cell's constraints are
\* updated, and the search goes on to the next cell if every one stays feasible
mc_try(env, index, current, required, unassigned, value) ==
  LET cell == env.cells[index]
      participating == {k \in env.constraints : cell \in k.U}
      req == [k \in env.constraints |->
                IF k \in participating /\ value = 1 THEN required[k] - 1 ELSE required[k]]
      una == [k \in env.constraints |->
                IF k \in participating THEN unassigned[k] - 1 ELSE unassigned[k]]
  IN  IF \A k \in participating : ~(req[k] < 0 \/ req[k] > una[k])
      THEN mc_assign(env, index + 1, [current EXCEPT ![cell] = value], req, una)
      ELSE [ok |-> FALSE, a |-> current]

\* the loop over the two values of a cell, with r the outcome of the value
\* tried first: the other value is tried, on the restored counters, if it failed
mc_other_value(env, index, current, required, unassigned, r) ==
  IF r.ok THEN r
  ELSE mc_try(env, index, current, required, unassigned, 1 - env.first[env.cells[index]])

\* the inner assign of montecarlo._random_assignment. env holds ordered_cells, the
\* constraints and, by cell, the value rng.shuffle puts first; required and
\* unassigned are the running counters. The result is [ok |-> the value
\* returned, a |-> the assignments made].
mc_assign(env, index, current, required, unassigned) ==
  IF index = Len(env.cells) + 1
  THEN [ok |-> \A k \in env.constraints : required[k] = 0, a |-> current]
  ELSE mc_other_value(env, index, current, required, unassigned,
                      mc_try(env, index, current, required, unassigned,
                             env.first[env.cells[index]]))

\* sorted(cells, key=(-degree, rng.random())): more constrained cells first, cells
\* of equal degree in a random order, here one of the scan orders
mc_ordered_cells(cells, constraints, ord) ==
  LET before(d, c) == \/ Degree(constraints, d) > Degree(constraints, c)
                      \/ Degree(constraints, d) = Degree(constraints, c)
                           /\ OrdKey(ord, d) < OrdKey(ord, c)
  IN  [k \in 1 .. Cardinality(cells) |->
         CHOOSE c \in cells : Cardinality({d \in cells : before(d, c)}) = k - 1]

\* the random outcomes of one _random_assignment call: the order of the cells
\* of equal degree and the value tried first on each cell. The code shuffles the
\* two values anew on every visit of a cell; here each visit of a cell tries the
\* same value first, which leaves the search every assignment it can end on.
SearchDraws(cells) == [ord : ScanOrders, first : [cells -> {0, 1}]]

\* a _random_assignment that takes the values tried first and tests nothing
random_assignment_search_untested(cells, constraints, draw) ==
  [ok |-> TRUE, a |-> draw.first]

\* montecarlo._random_assignment as it searches: ok is FALSE for None
random_assignment_search(cells, constraints, draw) ==
  IF cells = {} THEN [ok |-> TRUE, a |-> <<>>]
  ELSE mc_assign([cells |-> mc_ordered_cells(cells, constraints, draw.ord),
                  constraints |-> constraints, first |-> draw.first],
                 1, [c \in cells |-> 0],
                 [k \in constraints |-> k.r], [k \in constraints |-> Cardinality(k.U)])

\* one pass of the loop of _sample_component with r the outcome of the attempt:
\* None is discarded, an assignment is counted
sample_attempt(acc, r) ==
  IF ~r.ok THEN [acc EXCEPT !.attempts = @ + 1]
  ELSE [attempts |-> acc.attempts + 1,
        successes |-> acc.successes + 1,
        counts |-> [c \in DOMAIN acc.counts |-> acc.counts[c] + r.a[c]],
        samples |-> Append(acc.samples, r.a)]

\* the end of _sample_component: no map without a success, else counts over
\* successes, as fractions
sample_result(component, done) ==
  [probs |-> IF done.successes = 0 THEN <<>>
             ELSE [c \in component |-> <<done.counts[c], done.successes>>],
   attempts |-> done.attempts, successes |-> done.successes, samples |-> done.samples]

\* the random outcome of one compute_probabilities call: rnd[n] holds, for each
\* component, the n-th assignment its sampler drew
MCAssignments(b) ==
  LET constraints == mc_extract_constraints(b)
      components == mc_build_components(constraints)
      rel(comp) == constraints_for_component(comp, constraints)
      live == {comp \in components :
                 \E a \in [comp -> {0, 1}] : a \in random_assignment(comp, rel(comp))}
  IN  {a \in [Cells -> {0, 1}] :
         /\ \A c \in Cells \ UNION live : a[c] = 0
         /\ \A comp \in live : \A k \in rel(comp) : MinesOn(a, k) = k.r}

MCDraws(b) == [1 .. DefaultSamples -> MCAssignments(b)]

\* montecarlo._sample_component: cell -> <<mines counted, successes>>; every
\* attempt succeeds when the component has a satisfying assignment, none does
\* when it has not
sample_component(component, constraints, samples, rnd) ==
  IF component = {} \/ constraints = {} THEN <<>>
  ELSE IF \A a \in [component -> {0, 1}] : a \notin random_assignment(component, constraints)
  THEN <<>>
  ELSE [c \in component |-> <<Cardinality({n \in 1 .. samples : rnd[n][c] = 1}), samples>>]

\* montecarlo.compute_probabilities
compute_probabilities(b, samples, max_component, rnd) ==
  LET constraints == mc_extract_constraints(b)
      components == mc_build_components(constraints)
      component_samples(comp) ==
        IF Cardinality(comp) > max_component
        THEN Max(32, (samples * max_component) \div Cardinality(comp))
        ELSE samples
      probs == [comp \in components |->
                  sample_component(comp, constraints_for_component(comp, constraints),
                                   component_samples(comp), rnd)]
      covered == UNION {DOMAIN probs[comp] : comp \in components}
  IN  [c \in covered |-> probs[CHOOSE comp \in components : c \in comp][c]]

\* p < q for fractions <<numerator, denominator>> with positive denominators
FracLess(p, q) == p[1] * q[2] < q[1] * p[2]

\* montecarlo.choose_cell: the smallest cell among those of least probability.
\* Two different sample fractions differ by more than the 1e-6 of the code.
mc_choose_cell(b, rnd) ==
  LET probabilities == compute_probabilities(b, DefaultSamples, DefaultMaxComponent, rnd)
      candidates == {c \in DOMAIN probabilities :
                       \A d \in DOMAIN probabilities : ~FracLess(probabilities[d], probabilities[c])}
  IN  IF DOMAIN probabilities = {} THEN NoCell
      ELSE CHOOSE c \in candidates : \A d \in candidates : c = d \/ TupleLess(c, d)

\* --------------------------------------------------------------- heuristic
RECURSIVE local_probabilities_from(_, _, _, _)
\* the loop of probability.compute_local_probabilities over the revealed cells;
\* acc holds probabilities (has: the keys, p: the fractions) and constraint_counts
local_probabilities_from(b, order, idx, acc) ==
  IF idx > Len(order) THEN acc
  ELSE
    LET c == order[idx]
        tile_value == b.tiles[c]
        unknown == unknown_neighbors(b, c)
        u == Cardinality(unknown)
        remaining == tile_value - flagged_neighbors(b, c)
        next ==
          IF tile_value < 0 \/ unknown = {} THEN acc
          ELSE IF remaining = 0
          THEN [has |-> acc.has \cup unknown,
                p |-> [n \in Cells |-> IF n \in unknown THEN <<0, 1>> ELSE acc.p[n]],
                count |-> [n \in Cells |-> IF n \in unknown THEN acc.count[n] + 1 ELSE acc.count[n]]]
          ELSE IF remaining = u
          THEN [has |-> acc.has \cup unknown,
                p |-> [n \in Cells |-> IF n \in unknown THEN <<1, 1>> ELSE acc.p[n]],
                count |-> [n \in Cells |-> IF n \in unknown THEN acc.count[n] + 1 ELSE acc.count[n]]]
          ELSE [has |-> acc.has \cup unknown,
                p |-> [n \in Cells |->
                         IF n \notin unknown THEN acc.p[n]
                         ELSE IF n \in acc.has
                         THEN <<acc.p[n][1] * acc.count[n] * u + remaining * acc.p[n][2],
                                acc.p[n][2] * u * (acc.count[n] + 1)>>
                         ELSE <<remaining, u>>],
                count |-> [n \in Cells |->
                             IF n \notin unknown THEN acc.count[n]
                             ELSE IF n \in acc.has THEN acc.count[n] + 1 ELSE 1]]
    IN  local_probabilities_from(b, order, idx + 1, next)

\* probability.compute_local_probabilities, as exact fractions
compute_local_probabilities(b, ord) ==
  local_probabilities_from(b, SeqOf(revealed_cells(b), ord), 1,
                           [has |-> {}, p |-> [n \in Cells |-> <<0, 1>>],
                            count |-> [n \in Cells |-> 0]])

\* probability.compute_global_probability; int(total_cells * 0.15) is the floor
compute_global_probability(b) ==
  LET unknown_count == Cardinality(unknown_cells(b))
      rem == remaining_mines(b)
      est_remaining == Max(0, ((Rows * Cols * 15) \div 100) - flagged_count(b))
  IN  IF unknown_count = 0 THEN <<0, 1>>
      ELSE IF rem # NoTotal
      THEN (IF rem >= unknown_count THEN <<1, 1>> ELSE <<rem, unknown_count>>)
      ELSE (IF est_remaining >= unknown_count THEN <<1, 1>> ELSE <<est_remaining, unknown_count>>)

\* probability.compute_all_probabilities
compute_all_probabilities(b, ord) ==
  LET local_probs == compute_local_probabilities(b, ord)
      global_prob == compute_global_probability(b)
  IN  [c \in unknown_cells(b) |-> IF c \in local_probs.has THEN local_probs.p[c] ELSE global_prob]

\* four times the squared distance to (rows / 2, cols / 2)
distance_to_center(c) == (2 * c[1] - Rows) * (2 * c[1] - Rows) + (2 * c[2] - Cols) * (2 * c[2] - Cols)

\* probability.choose_cell: among the cells of least probability the one nearest
\* the centre, the first such in the order of the probability map
probability_choose_cell(b, ord) ==
  LET unknown == unknown_cells(b)
      probabilities == compute_all_probabilities(b, ord)
      safest_cells == {c \in unknown :
                         \A d \in unknown : ~FracLess(probabilities[d], probabilities[c])}
      nearest == {c \in safest_cells :
                    \A d \in safest_cells : distance_to_center(c) <= distance_to_center(d)}
  IN  IF unknown = {} THEN NoCell
      ELSE IF DOMAIN probabilities = {} THEN SeqOf(unknown, ord)[1]
      ELSE CHOOSE c \in nearest : \A d \in nearest : OrdKey(ord, c) <= OrdKey(ord, d)

\* ------------------------------------------------------------- coordinator
\* SolverConfig
Configs ==
  [use_csp : BOOLEAN, use_sat : BOOLEAN, use_probability : BOOLEAN,
   use_monte_carlo : BOOLEAN, expansion : {"bfs", "dfs"}]

DEFAULT_CONFIG ==
  [use_csp |-> TRUE, use_sat |-> TRUE, use_probability |-> TRUE,
   use_monte_carlo |-> TRUE, expansion |-> "bfs"]

\* a value returned by step
Move(action, cells) == [action |-> action, cells |-> cells]

\* step that takes the first unknown cell before it asks the sampler or the
\* heuristic
step_fallback_first(b, cfg, rnd, ord) ==
  LET csp == IF cfg.use_csp THEN csp_infer(b) ELSE [safe |-> {}, mines |-> {}]
      sat == IF cfg.use_sat THEN sat_infer(b) ELSE [safe |-> {}, mines |-> {}]
      unknown == unknown_cells(b)
      move ==
        IF b.game_over THEN Move("game_over", <<>>)
        ELSE IF csp.safe # {} THEN Move("reveal_safe", SeqOf(csp.safe, ord))
        ELSE IF csp.mines # {} THEN Move("flag_mines", SeqOf(csp.mines, ord))
        ELSE IF sat.safe # {} THEN Move("reveal_safe", SeqOf(sat.safe, ord))
        ELSE IF sat.mines # {} THEN Move("flag_mines", SeqOf(sat.mines, ord))
        ELSE IF unknown # {} THEN Move("guess", <<SeqOf(unknown, ord)[1]>>)
        ELSE Move("none", <<>>)
  IN  [move |-> move, b |-> b]

\* step that reveals the cell it guesses
step_revealing(b, cfg, rnd, ord) ==
  LET unknown == unknown_cells(b)
      c == SeqOf(unknown, ord)[1]
  IN  IF b.game_over THEN [move |-> Move("game_over", <<>>), b |-> b]
      ELSE IF unknown = {} THEN [move |-> Move("none", <<>>), b |-> b]
      ELSE [move |-> Move("guess", <<c>>), b |-> reveal(b, c[1], c[2], {}).b]

\* strategy.step: [move |-> the pair returned, b |-> the board after the call].
\* rnd is the outcome of the Monte-Carlo sampler's random.Random(None), ord the
\* iteration order of the sets. Every Board method step and the engines call
\* only reads the board.
step(b, cfg, rnd, ord) ==
  LET csp == IF cfg.use_csp THEN csp_infer(b) ELSE [safe |-> {}, mines |-> {}]
      sat == IF cfg.use_sat THEN sat_infer(b) ELSE [safe |-> {}, mines |-> {}]
      mc_cell == IF cfg.use_monte_carlo THEN mc_choose_cell(b, rnd) ELSE NoCell
      cell == IF cfg.use_probability THEN probability_choose_cell(b, ord) ELSE NoCell
      unknown == unknown_cells(b)
      move ==
        IF b.game_over THEN Move("game_over", <<>>)
        ELSE IF csp.safe # {} THEN Move("reveal_safe", SeqOf(csp.safe, ord))
        ELSE IF csp.mines # {} THEN Move("flag_mines", SeqOf(csp.mines, ord))
        ELSE IF sat.safe # {} THEN Move("reveal_safe", SeqOf(sat.safe, ord))
        ELSE IF sat.mines # {} THEN Move("flag_mines", SeqOf(sat.mines, ord))
        ELSE IF mc_cell # NoCell THEN Move("guess", <<mc_cell>>)
        ELSE IF cell # NoCell THEN Move("guess", <<cell>>)
        ELSE IF unknown # {} THEN Move("guess", <<SeqOf(unknown, ord)[1]>>)
        ELSE Move("none", <<>>)
  IN  [move |-> move, b |-> b]

\* --------------------------------------------------------------- expansion
\* the UNKNOWN neighbours of a cell outside visited, in the order of neighbors()
UnknownUnvisited(b, c, visited) ==
  LET unvisited(n) == is_unknown(b, n[1], n[2]) /\ n \notin visited
  IN  SelectSeq(neighbors(c[1], c[2]), unvisited)

RECURSIVE bfs_loop(_, _, _, _, _, _)
\* the body of the while loop of bfs_reveal past its tests of the popped cell
\* c, with r the outcome of board.reveal on it
bfs_revealed(c, rest, seen, revealed, opened, pref, r) ==
  IF ~r.ret THEN bfs_loop(r.b, rest, seen, revealed, opened, pref)
  ELSE IF r.b.game_over
  THEN [b |-> r.b, revealed |-> revealed, opened |-> Append(opened, c)]
  ELSE IF get_tile(r.b, c[1], c[2]) = 0
  THEN bfs_loop(r.b, rest \o UnknownUnvisited(r.b, c, seen), seen,
                Append(revealed, c), Append(opened, c), pref)
  ELSE bfs_loop(r.b, rest, seen, Append(revealed, c), Append(opened, c), pref)

\* the while loop of bfs_reveal. opened lists the cells whose reveal returned
\* True, revealed is the list the function returns (a mine that ends the loop is
\* opened but not listed).
bfs_loop(b, queue, visited, revealed, opened, pref) ==
  IF queue = <<>> \/ b.game_over
  THEN [b |-> b, revealed |-> revealed, opened |-> opened]
  ELSE IF Head(queue) \in visited
  THEN bfs_loop(b, Tail(queue), visited, revealed, opened, pref)
  ELSE IF ~is_unknown(b, Head(queue)[1], Head(queue)[2])
  THEN bfs_loop(b, Tail(queue), visited \cup {Head(queue)}, revealed, opened, pref)
  ELSE bfs_revealed(Head(queue), Tail(queue), visited \cup {Head(queue)}, revealed, opened, pref,
                    reveal(b, Head(queue)[1], Head(queue)[2], pref))

\* bfs_reveal that reveals the unknown neighbours of the start and goes no
\* further
bfs_reveal_one_ring(b, start_i, start_j, pref) ==
  LET ring == UnknownUnvisited(b, <<start_i, start_j>>, {<<start_i, start_j>>})
  IN  IF b.game_over \/ ~InBounds(start_i, start_j) \/ get_tile(b, start_i, start_j) # 0
      THEN [b |-> b, revealed |-> <<>>, opened |-> <<>>]
      ELSE [b |-> [b EXCEPT !.tiles = [x \in Cells |->
                                         IF x \in SeqRange(ring)
                                         THEN count_adjacent_mines(b, x[1], x[2])
                                         ELSE b.tiles[x]],
                            !.revealed_count = @ + Len(ring)],
            revealed |-> ring, opened |-> ring]

\* bfs.bfs_reveal. The start tile shows 0 past the early returns, so it is
\* revealed already and mines are placed: no reveal below can raise. pref is the
\* outcome of the board's rng, drawn from only on a board no reveal has touched.
bfs_reveal(b, start_i, start_j, pref) ==
  LET start == <<start_i, start_j>>
      nothing == [b |-> b, revealed |-> <<>>, opened |-> <<>>]
  IN  IF b.game_over THEN nothing
      ELSE IF ~InBounds(start_i, start_j) THEN nothing
      ELSE IF is_flagged(b, start_i, start_j) THEN nothing
      ELSE IF get_tile(b, start_i, start_j) # 0 THEN nothing
      ELSE bfs_loop(b, UnknownUnvisited(b, start, {start}), {start}, <<>>, <<>>, pref)

RECURSIVE dfs_neighbors(_, _, _, _)
\* the body of the for loop of dfs_reveal for a neighbour n that is neither
\* visited nor flagged, with r the outcome of board.reveal on it
dfs_revealed(nbrs, idx, acc, pref, n, r) ==
  IF is_unknown(acc.b, n[1], n[2]) /\ r.ret
  THEN dfs_neighbors(nbrs, idx + 1,
                     [acc EXCEPT !.visited = @ \cup {n},
                                 !.b = r.b,
                                 !.revealed = Append(@, n),
                                 !.stack = IF get_tile(r.b, n[1], n[2]) = 0
                                           THEN Append(@, n) ELSE @],
                     pref)
  ELSE dfs_neighbors(nbrs, idx + 1, [acc EXCEPT !.visited = @ \cup {n}], pref)

\* the for loop of dfs_reveal over the neighbours of the popped cell; acc holds
\* the board, the stack, visited and revealed. The loop has no test of
\* game_over: it goes on to the remaining neighbours after a mine.
dfs_neighbors(nbrs, idx, acc, pref) ==
  IF idx > Len(nbrs) THEN acc
  ELSE IF nbrs[idx] \in acc.visited \/ is_flagged(acc.b, nbrs[idx][1], nbrs[idx][2])
  THEN dfs_neighbors(nbrs, idx + 1, acc, pref)
  ELSE dfs_revealed(nbrs, idx, acc, pref, nbrs[idx],
                    reveal(acc.b, nbrs[idx][1], nbrs[idx][2], pref))

RECURSIVE dfs_loop(_, _)
\* the while loop of dfs_reveal
dfs_loop(acc, pref) ==
  IF acc.stack = <<>> \/ acc.b.game_over THEN acc
  ELSE dfs_loop(dfs_neighbors(neighbors(acc.stack[Len(acc.stack)][1], acc.stack[Len(acc.stack)][2]),
                              1, [acc EXCEPT !.stack = SubSeq(@, 1, Len(@) - 1)], pref),
                pref)

\* the lists dfs_reveal returns from the state its loop ended in; every cell
\* whose reveal returned True is in the list returned
dfs_result(done) == [b |-> done.b, revealed |-> done.revealed, opened |-> done.revealed]

\* dfs_reveal that reveals one unknown neighbour of the start per call
dfs_reveal_one_cell(b, start_i, start_j, pref) ==
  LET ring == UnknownUnvisited(b, <<start_i, start_j>>, {<<start_i, start_j>>})
  IN  IF b.game_over \/ ~InBounds(start_i, start_j) \/ get_tile(b, start_i, start_j) # 0
         \/ ring = <<>>
      THEN [b |-> b, revealed |-> <<>>, opened |-> <<>>]
      ELSE [b |-> reveal(b, ring[1][1], ring[1][2], pref).b,
            revealed |-> <<ring[1]>>, opened |-> <<ring[1]>>]

\* dfs.dfs_reveal
dfs_reveal(b, start_i, start_j, pref) ==
  IF b.game_over \/ ~InBounds(start_i, start_j) THEN [b |-> b, revealed |-> <<>>, opened |-> <<>>]
  ELSE IF is_flagged(b, start_i, start_j) THEN [b |-> b, revealed |-> <<>>, opened |-> <<>>]
  ELSE IF get_tile(b, start_i, start_j) # 0 THEN [b |-> b, revealed |-> <<>>, opened |-> <<>>]
  ELSE dfs_result(dfs_loop([b |-> b, stack |-> << <<start_i, start_j>> >>,
                            visited |-> {<<start_i, start_j>>}, revealed |-> <<>>], pref))

\* solve_step without expansion: a revealed zero is left as it is
expansion_fn_skipped(cfg, b, i, j, pref) == [b |-> b, revealed |-> <<>>, opened |-> <<>>]

\* expansion_fn of solve_step
expansion_fn(cfg, b, i, j, pref) ==
  IF cfg.expansion = "bfs" THEN bfs_reveal(b, i, j, pref) ELSE dfs_reveal(b, i, j, pref)

\* what a solve_step call has done so far
Progress(b, success, raised, log) == [b |-> b, ret |-> success, raised |-> raised, log |-> log]

\* the state of a solve_step call after the expansion e from the revealed cell c
Expanded(acc, c, e) == Progress(e.b, TRUE, FALSE, Append(acc.log, c) \o e.opened)

RECURSIVE reveal_cells(_, _, _, _, _)
\* the body of the reveal loop of solve_step for the target c, with r the outcome
\* of board.reveal on it
reveal_target(cells, idx, cfg, pref, acc, c, r) ==
  IF r.raised THEN [acc EXCEPT !.ret = FALSE, !.raised = TRUE]
  ELSE IF ~r.ret THEN reveal_cells(cells, idx + 1, cfg, pref, acc)
  ELSE IF r.b.game_over THEN Progress(r.b, TRUE, FALSE, Append(acc.log, c))
  ELSE IF get_tile(r.b, c[1], c[2]) = 0
  THEN reveal_cells(cells, idx + 1, cfg, pref,
                    Expanded(acc, c, expansion_fn(cfg, r.b, c[1], c[2], pref)))
  ELSE reveal_cells(cells, idx + 1, cfg, pref, Progress(r.b, TRUE, FALSE, Append(acc.log, c)))

\* the loop of solve_step for "reveal_safe" and for "guess"
reveal_cells(cells, idx, cfg, pref, acc) ==
  IF idx > Len(cells) \/ acc.b.game_over THEN acc
  ELSE reveal_target(cells, idx, cfg, pref, acc, cells[idx],
                     reveal(acc.b, cells[idx][1], cells[idx][2], pref))

RECURSIVE flag_cells(_, _, _)
\* the body of the flag loop of solve_step for the target c, with r the outcome
\* of board.flag on it
flag_target(cells, idx, acc, c, r) ==
  IF r.ret THEN flag_cells(cells, idx + 1, Progress(r.b, TRUE, FALSE, Append(acc.log, c)))
  ELSE flag_cells(cells, idx + 1, acc)

\* the loop of solve_step for "flag_mines"
flag_cells(cells, idx, acc) ==
  IF idx > Len(cells) \/ acc.b.game_over THEN acc
  ELSE flag_target(cells, idx, acc, cells[idx], flag(acc.b, cells[idx][1], cells[idx][2]))

RECURSIVE solve_step_past_mine(_, _, _, _, _)
\* solve_step without any test of game_over: it reveals or flags every target
solve_step_past_mine(b, action, cells, cfg, pref) ==
  IF cells = <<>> \/ action \notin {"reveal_safe", "flag_mines", "guess"}
  THEN Progress(b, FALSE, FALSE, <<>>)
  ELSE
    LET c == Head(cells)
        first == IF action = "flag_mines" THEN flag(b, c[1], c[2]) ELSE reveal(b, c[1], c[2], pref)
        rest == solve_step_past_mine(first.b, action, Tail(cells), cfg, pref)
    IN  Progress(rest.b, first.ret \/ rest.ret, FALSE,
                 (IF first.ret THEN <<c>> ELSE <<>>) \o rest.log)

\* strategy.solve_step: [b |-> the board after the call, ret |-> the value
\* returned, raised |-> a reveal ended the call in ValueError, log |-> the cells
\* whose reveal or flag returned True, in the order of the calls]
solve_step(b, action, cells, cfg, pref) ==
  IF b.game_over THEN Progress(b, FALSE, FALSE, <<>>)
  ELSE IF action = "reveal_safe"
  THEN reveal_cells(cells, 1, cfg, pref, Progress(b, FALSE, FALSE, <<>>))
  ELSE IF action = "flag_mines" THEN flag_cells(cells, 1, Progress(b, FALSE, FALSE, <<>>))
  ELSE IF action = "guess"
  THEN reveal_cells(cells, 1, cfg, pref, Progress(b, FALSE, FALSE, <<>>))
  ELSE Progress(b, FALSE, FALSE, <<>>)

\* ------------------------------------------------------------ board files
\* the per-cell tokens of a board file that the model draws from
FileTokens == {".", "*", "0", "1", "9"}

\* str.isdigit on a one-character token
isdigit(tok) == tok \in {"0", "1", "2", "3", "4", "5", "6", "7", "8", "9"}

\* int(char) on a one-character digit token
int(tok) ==
  CASE tok = "0" -> 0 [] tok = "1" -> 1 [] tok = "2" -> 2 [] tok = "3" -> 3
    [] tok = "4" -> 4 [] tok = "5" -> 5 [] tok = "6" -> 6 [] tok = "7" -> 7
    [] tok = "8" -> 8 [] tok = "9" -> 9

\* most digit tokens and most mine tokens in a file the model loads
MaxFileDigits == 1

MaxFileMines == 1

\* Board.load_from_file on a file with the header "Rows Cols" and Rows lines of
\* Cols whitespace-separated tokens; file[c] is the token of cell c
load_from_file(file) ==
  LET bombs == {c \in Cells : file[c] \in {"*", "M", "m"}}
      revealed_values == {c \in Cells : file[c] \notin {"*", "M", "m"} /\ isdigit(file[c])}
      fresh == NewBoard(TRUE, bombs, NoTotal, TRUE)
  IN  [fresh EXCEPT
         !.tiles = [c \in Cells |-> IF c \in revealed_values THEN int(file[c]) ELSE UNKNOWN],
         !.revealed_count = Cardinality(revealed_values)]

\* the files the model loads: at most MaxFileMines mines and MaxFileDigits numbers
Files ==
  {f \in [Cells -> FileTokens] :
     /\ Cardinality({c \in Cells : f[c] \in {"*", "M", "m"}}) <= MaxFileMines
     /\ Cardinality({c \in Cells : isdigit(f[c])}) <= MaxFileDigits}

\* ------------------------------------------------------------------ state
VARIABLES
  board,  \* the Board object
  call,   \* the last operation called on it: its name and its result
  hist,   \* history: whether the numbers matched the mines when the board was made
          \* and every flag since was placed on a mine
  move    \* the pair the last step returned, until solve_step has applied it

vars == <<board, call, hist, move>>

\* targets and log are filled by solve_step only: the cells it was given, and
\* the cells whose reveal or flag returned True
Call(op, ret, raised) ==
  [op |-> op, ret |-> ret, raised |-> raised, targets |-> <<>>, log |-> <<>>]

\* no step has returned since the last solve_step
NoMove == [action |-> "", cells |-> <<>>]

\* every revealed number equals the number of mines around it
NumbersMatchMines(b) ==
  \A c \in Cells :
    (b.tiles[c] >= 0 /\ b.tiles[c] # MINE) => b.tiles[c] = count_adjacent_mines(b, c[1], c[2])

\* Board(rows, cols), Board(rows, cols, bombs=B), Board(rows, cols, total_mines=n),
\* each with either value of ensure_first_click_zero
InitConstructor ==
  /\ \E fcz \in BOOLEAN :
       \/ /\ board = NewBoard(FALSE, {}, NoTotal, fcz)
          /\ hist = [honest |-> TRUE]
       \/ \E B \in SUBSET Cells :
            /\ Cardinality(B) <= MaxMines
            /\ board = NewBoard(TRUE, B, NoTotal, fcz)
            /\ hist = [honest |-> TRUE]
       \/ \E n \in (1 .. MaxMines) \cup {Rows * Cols} :
            /\ board = NewBoard(FALSE, {}, n, fcz)
            /\ hist = [honest |-> TRUE]
  /\ call = Call("Board", FALSE, FALSE)
  /\ move = NoMove

\* Board.load_from_file(path)
InitFile ==
  /\ \E f \in Files :
       /\ board = load_from_file(f)
       /\ hist = [honest |-> NumbersMatchMines(load_from_file(f))]
  /\ call = Call("load_from_file", FALSE, FALSE)
  /\ move = NoMove

Init == InitConstructor

\* the random outcomes a call can draw: the board's rng is used only before the
\* first successful reveal
Oracles(b) ==
  IF b.first_reveal_done THEN {{}}
  ELSE LET k == IF b.mines_initialized THEN Cardinality(b.bombs)
                ELSE IF b.total_mines < Rows * Cols THEN b.total_mines ELSE 0
       IN  {pref \in SUBSET Cells : Cardinality(pref) = k}

\* a flag placed on a cell that holds no mine ends honest play
HonestAfterFlag(b, c, ok) == hist.honest /\ (ok => c \in b.bombs)

\* board.reveal(i, j)
Reveal(c) ==
  \E pref \in Oracles(board) :
    LET r == reveal(board, c[1], c[2], pref)
    IN  /\ board' = r.b
        /\ call' = Call("reveal", r.ret, r.raised)
        /\ hist' = hist
        /\ move' = move

\* board.flag(i, j)
Flag(c) ==
  LET r == flag(board, c[1], c[2])
  IN  /\ board.flagged_count < MaxFlags
      /\ board' = r.b
      /\ call' = Call("flag", r.ret, FALSE)
      /\ hist' = [hist EXCEPT !.honest = HonestAfterFlag(board, c, r.ret)]
      /\ move' = move

\* board.unflag(i, j)
Unflag(c) ==
  LET r == unflag(board, c[1], c[2])
  IN  /\ board' = r.b
      /\ call' = Call("unflag", r.ret, FALSE)
      /\ hist' = hist
      /\ move' = move

Next ==
  \/ \E c \in Coords : Reveal(c)
  \/ \E c \in Coords : Flag(c)
  \/ \E c \in Coords : Unflag(c)

Spec == Init /\ [][Next]_vars

\* a board loaded from a file, then played on
SpecFile == InitFile /\ [][Next]_vars

\* the random outcomes of a step call: the sampler runs, and draws, only when
\* the config enables it
DrawsFor(b, cfg) == IF cfg.use_monte_carlo THEN MCDraws(b) ELSE {<<>>}

\* step(board, config), called as cli.run_solver calls it: once, and then
\* solve_step on what it returned
Step(cfg) ==
  /\ move = NoMove
  /\ \E ord \in ScanOrders : \E rnd \in DrawsFor(board, cfg) :
      \E s \in {step(board, cfg, rnd, ord)} :
        /\ board' = s.b
        /\ call' = Call("step", FALSE, FALSE)
        /\ hist' = hist
        /\ move' = s.move

\* solve_step(board, action, cells, config) on the pair step returned
SolveStep(cfg) ==
  /\ move # NoMove
  /\ \E pref \in Oracles(board) :
       \E r \in {solve_step(board, move.action, move.cells, cfg, pref)} :
           /\ board' = r.b
           /\ call' = [Call("solve_step", r.ret, r.raised) EXCEPT
                         !.targets = move.cells, !.log = r.log]
           /\ hist' = [hist EXCEPT !.honest =
                         @ /\ (move.action = "flag_mines" => SeqRange(r.log) \subseteq board.bombs)]
           /\ move' = NoMove

\* cli.STRATEGY_PRESETS: full, full-nomc, csp, csp-sat, csp-prob, prob-only, sat-only
STRATEGY_PRESETS ==
  {DEFAULT_CONFIG,
   [DEFAULT_CONFIG EXCEPT !.use_monte_carlo = FALSE],
   [DEFAULT_CONFIG EXCEPT !.use_sat = FALSE, !.use_probability = FALSE, !.use_monte_carlo = FALSE],
   [DEFAULT_CONFIG EXCEPT !.use_probability = FALSE, !.use_monte_carlo = FALSE],
   [DEFAULT_CONFIG EXCEPT !.use_sat = FALSE, !.use_monte_carlo = FALSE],
   [DEFAULT_CONFIG EXCEPT !.use_csp = FALSE, !.use_sat = FALSE, !.use_monte_carlo = FALSE],
   [DEFAULT_CONFIG EXCEPT !.use_csp = FALSE, !.use_probability = FALSE, !.use_monte_carlo = FALSE]}

ExpansionConfigs == {[DEFAULT_CONFIG EXCEPT !.expansion = e] : e \in {"bfs", "dfs"}}

\* the configs the solver is run with: the presets, the sampler alone, and
\* every engine off
SolverConfigs ==
  STRATEGY_PRESETS
    \cup {[DEFAULT_CONFIG EXCEPT !.use_csp = FALSE, !.use_sat = FALSE, !.use_probability = FALSE],
          [DEFAULT_CONFIG EXCEPT !.use_csp = FALSE, !.use_sat = FALSE, !.use_probability = FALSE,
                                 !.use_monte_carlo = FALSE]}

\* the solver at work
NextSolver ==
  \/ \E cfg \in SolverConfigs : Step(cfg)
  \/ \E cfg \in ExpansionConfigs : SolveStep(cfg)

\* the solver on a board fresh from the constructor or from a file
SpecSolver == (InitConstructor \/ InitFile) /\ [][NextSolver]_vars

\* the solver on a board fresh from the constructor
SpecSolverFresh == InitConstructor /\ [][NextSolver]_vars

\* ------------------------------------------------------------ board claims
TileCount(b, v) == Cardinality({c \in Cells : b.tiles[c] = v})

\* the cells a call changed
Changed(b0, b1) == {c \in Cells : b0.tiles[c] # b1.tiles[c]}

\* C5: reveal and flag on an out-of-bounds or non-UNKNOWN cell, and unflag on an
\* out-of-bounds or non-FLAGGED cell, return False and change nothing; a
\* successful flag (unflag) turns one UNKNOWN (FLAGGED) tile FLAGGED (UNKNOWN),
\* moves flagged_count by one and changes nothing else.
C5_RejectsWithoutChange ==
  /\ [](\A c \in Coords :
          /\ (~InBounds(c[1], c[2]) \/ board.tiles[c] # UNKNOWN) =>
               /\ \A pref \in Oracles(board) :
                    reveal(board, c[1], c[2], pref) = [b |-> board, ret |-> FALSE, raised |-> FALSE]
               /\ flag(board, c[1], c[2]) = [b |-> board, ret |-> FALSE]
          /\ (~InBounds(c[1], c[2]) \/ board.tiles[c] # FLAGGED) =>
               unflag(board, c[1], c[2]) = [b |-> board, ret |-> FALSE])
  /\ [][ /\ (call'.op \in {"reveal", "flag", "unflag"} /\ ~call'.ret) => board' = board
         /\ (call'.op = "flag" /\ call'.ret) =>
              \E c \in Cells :
                /\ board.tiles[c] = UNKNOWN
                /\ board' = [board EXCEPT !.tiles[c] = FLAGGED, !.flagged_count = @ + 1]
         /\ (call'.op = "unflag" /\ call'.ret) =>
              \E c \in Cells :
                /\ board.tiles[c] = FLAGGED
                /\ board' = [board EXCEPT !.tiles[c] = UNKNOWN, !.flagged_count = @ - 1]
       ]_vars

\* a call was rejected on a board that has revealed and flagged tiles to reject on
C5_Witness ==
  /\ call.op \in {"reveal", "flag", "unflag"}
  /\ ~call.ret /\ ~call.raised
  /\ board.revealed_count > 0
  /\ board.flagged_count > 0

\* the cells outside the clicked cell and its neighbours
OutsideZone(c) == Cells \ ({c} \cup NeighborSet(c[1], c[2]))

\* C6: on a board built with total_mines <= rows*cols - 1 (placement deferred)
\* the first successful reveal does not set game_over; when at least total_mines
\* cells lie outside the clicked cell and its neighbours (first-click guarantee
\* on, the default) the revealed value is 0 and no neighbour holds a mine; and
\* no reveal next to a revealed 0 ever hits a mine.
C6_FirstClickSafe ==
  [][ /\ ( /\ ~board.mines_initialized
           /\ board.total_mines <= Rows * Cols - 1
           /\ call'.op = "reveal" /\ call'.ret ) =>
           /\ ~board'.game_over
           /\ \A c \in Changed(board, board') :
                ( /\ board.first_click_zero
                  /\ Cardinality(OutsideZone(c)) >= board.total_mines ) =>
                  /\ board'.tiles[c] = 0
                  /\ NeighborSet(c[1], c[2]) \cap board'.bombs = {}
      /\ \A c \in Changed(board, board') :
           (\E z \in NeighborSet(c[1], c[2]) : board.tiles[z] = 0) => board'.tiles[c] # MINE
    ]_vars

\* a deferred board after its first click, which opened a 0, with a neighbour of
\* that 0 revealed since
C6_Witness ==
  /\ board.total_mines = MaxMines
  /\ board.mines_initialized
  /\ Cardinality(board.bombs) = MaxMines
  /\ \E c \in Cells :
       /\ board.tiles[c] = 0
       /\ Cardinality(OutsideZone(c)) >= board.total_mines
       /\ \E z \in NeighborSet(c[1], c[2]) : board.tiles[z] >= 0
  /\ ~board.game_over

\* C7: game_over holds iff some tile holds 9; then hit_mine_at is such a tile, and
\* without game_over hit_mine_at is None.
C7_GameOverIffMineShown ==
  /\ board.game_over <=> (\E c \in Cells : board.tiles[c] = MINE)
  /\ board.game_over => (board.hit_mine_at \in Cells /\ board.tiles[board.hit_mine_at] = MINE)
  /\ ~board.game_over => board.hit_mine_at = NoCell

\* C8: is_finished() iff revealed_count + |mines| = rows*cols and not game_over.
C8_IsFinishedExcludesLoss ==
  is_finished(board) <=>
    (board.revealed_count + Cardinality(board.bombs) = Rows * Cols /\ ~board.game_over)

\* C9 as stated: revealed_count + |mines| + unknown_count + flagged_count = rows*cols.
C9_CountsWithMines ==
  board.revealed_count + Cardinality(board.bombs) + Cardinality(unknown_cells(board))
    + flagged_count(board) = Rows * Cols

\* C9 amended: revealed_count + unknown_count + flagged_count = rows*cols (the
\* mines are among the tiles counted, not a class of their own).
C9_CountsPartitionTiles ==
  board.revealed_count + Cardinality(unknown_cells(board)) + flagged_count(board) = Rows * Cols

\* a board with mines and with revealed, flagged and unknown tiles, after an unflag
C9_Witness ==
  /\ board.bombs # {}
  /\ board.revealed_count > 0
  /\ board.flagged_count > 0
  /\ unknown_cells(board) # {}
  /\ call.op = "unflag" /\ call.ret

\* C10: on an honestly played game every revealed v in 1..8 equals its flagged
\* neighbours + its unknown neighbours holding mines + its revealed neighbours
\* holding mines, against the current mine set.
C10_NumbersMatchNeighbours ==
  hist.honest =>
    \A c \in Cells :
      (board.tiles[c] >= 1 /\ board.tiles[c] <= 8) =>
        board.tiles[c] =
          Cardinality({n \in NeighborSet(c[1], c[2]) : board.tiles[n] = FLAGGED})
          + Cardinality({n \in NeighborSet(c[1], c[2]) : board.tiles[n] = UNKNOWN /\ n \in board.bombs})
          + Cardinality({n \in NeighborSet(c[1], c[2]) : board.tiles[n] >= 0 /\ n \in board.bombs})

\* ----------------------------------------------------------- solver claims
\* seq lists the cells of S, each once
IsListOf(seq, S) == SeqRange(seq) = S /\ Len(seq) = Cardinality(S)

\* m is the outcome of the first rule of the list that applies to board b
FirstRuleOutcome(b, cfg, rnd, ord, m) ==
  LET csp == csp_infer(b)
      sat == sat_infer(b)
      mc_cell == mc_choose_cell(b, rnd)
      cell == probability_choose_cell(b, ord)
  IN  IF b.game_over THEN m = Move("game_over", <<>>)
      ELSE IF cfg.use_csp /\ csp.safe # {}
      THEN m.action = "reveal_safe" /\ IsListOf(m.cells, csp.safe)
      ELSE IF cfg.use_csp /\ csp.mines # {}
      THEN m.action = "flag_mines" /\ IsListOf(m.cells, csp.mines)
      ELSE IF cfg.use_sat /\ sat.safe # {}
      THEN m.action = "reveal_safe" /\ IsListOf(m.cells, sat.safe)
      ELSE IF cfg.use_sat /\ sat.mines # {}
      THEN m.action = "flag_mines" /\ IsListOf(m.cells, sat.mines)
      ELSE IF cfg.use_monte_carlo /\ mc_cell # NoCell THEN m = Move("guess", <<mc_cell>>)
      ELSE IF cfg.use_probability /\ cell # NoCell THEN m = Move("guess", <<cell>>)
      ELSE IF unknown_cells(b) # {}
      THEN m.action = "guess" /\ Len(m.cells) = 1 /\ m.cells[1] \in unknown_cells(b)
      ELSE m = Move("none", <<>>)

\* C1: step(board, config) returns the outcome of the first rule that applies,
\* in the order game_over, CSP safe, CSP mines, SAT safe, SAT mines, Monte-Carlo
\* cell, heuristic cell, some unknown cell, none: on every board the solver
\* reaches, for every config, sampler outcome and iteration order; and the pair a
\* step call has just returned is such an outcome.
C1_FirstApplicableRule ==
  /\ move = NoMove =>
       \A cfg \in SolverConfigs : \A ord \in ScanOrders : \A rnd \in DrawsFor(board, cfg) :
         FirstRuleOutcome(board, cfg, rnd, ord, step(board, cfg, rnd, ord).move)
  /\ call.op = "step" =>
       \E cfg \in SolverConfigs : \E ord \in ScanOrders : \E rnd \in DrawsFor(board, cfg) :
         FirstRuleOutcome(board, cfg, rnd, ord, move)

\* step has returned the CSP mines to flag on a board where the SAT engine,
\* asked later, has a safe cell to reveal
C1_Witness ==
  /\ call.op = "step"
  /\ move.action = "flag_mines"
  /\ IsListOf(move.cells, csp_infer(board).mines)
  /\ sat_infer(board).safe # {}

\* the arguments solve_step is called with
SolveActions == {"reveal_safe", "flag_mines", "guess", "game_over", "none"}

MaxTargets == 2

TargetLists == UNION {[1 .. n -> Cells] : n \in 0 .. MaxTargets}

\* a call that took b0 to b1 and set game_over ended on the reveal of the mine:
\* the mine is the last cell of its log, no cell before it is a mine, and no
\* tile outside the log has changed
StoppedAtMine(b0, b1, log) ==
  /\ log # <<>>
  /\ log[Len(log)] = b1.hit_mine_at
  /\ \A k \in 1 .. Len(log) : (b1.tiles[log[k]] = MINE) = (k = Len(log))
  /\ \A k \in 1 .. Len(log) : b1.tiles[log[k]] # FLAGGED
  /\ Changed(b0, b1) = SeqRange(log)
  /\ b1.revealed_count = b0.revealed_count + Len(log)

\* C2: on a board with game_over set solve_step returns False and changes
\* nothing; and when a reveal inside solve_step sets game_over, that reveal is the
\* last thing the call does: no cell is revealed, flagged or expanded after it,
\* whatever remains in the target list. Checked for every action and target list
\* of up to MaxTargets cells on every board the solver reaches, and on the calls
\* the solver makes.
C2_SolveStepStopsAtMine ==
  /\ [](move = NoMove =>
          \A action \in SolveActions : \A cells \in TargetLists :
            \A cfg \in ExpansionConfigs : \A pref \in Oracles(board) :
              LET r == solve_step(board, action, cells, cfg, pref)
              IN  /\ board.game_over => r = Progress(board, FALSE, FALSE, <<>>)
                  /\ (~board.game_over /\ r.b.game_over) =>
                       /\ action \in {"reveal_safe", "guess"}
                       /\ r.ret
                       /\ StoppedAtMine(board, r.b, r.log))
  /\ [][call'.op = "solve_step" =>
          /\ board.game_over => (board' = board /\ ~call'.ret /\ call'.log = <<>>)
          /\ (~board.game_over /\ board'.game_over) =>
               (call'.ret /\ StoppedAtMine(board, board', call'.log))]_vars

\* solve_step has hit a mine and left a later cell of its target list untouched
C2_Witness ==
  /\ call.op = "solve_step"
  /\ board.game_over
  /\ call.log # <<>>
  /\ call.log[Len(call.log)] = board.hit_mine_at
  /\ \E k, n \in 1 .. Len(call.targets) :
       /\ k < n
       /\ call.targets[k] = board.hit_mine_at
       /\ board.tiles[call.targets[n]] = UNKNOWN

\* C3: step never mutates the board: after every step call every tile, the
\* mine set, both counters, game_over, hit_mine_at and the mines-placed and
\* first-reveal-done flags are what they were before it.
C3_StepLeavesBoard == [][call'.op = "step" => board' = board]_vars

\* step has returned a guess on a board whose mines are still to be placed
C3_Witness ==
  /\ call.op = "step"
  /\ move.action = "guess"
  /\ ~board.mines_initialized
  /\ board.bombs = {}

\* C4: two step calls on the same board with the same config return the same
\* action and the same cells, the Monte-Carlo layer included. Neither step nor
\* montecarlo.choose_cell takes a seed: the sampler draws from random.Random(None),
\* so the two calls differ in their sampler outcomes and in nothing else.
C4_StepDeterministic ==
  move = NoMove =>
    \A cfg \in SolverConfigs : \A ord \in ScanOrders :
      \A rnd1 \in DrawsFor(board, cfg) : \A rnd2 \in DrawsFor(board, cfg) :
        step(board, cfg, rnd1, ord).move = step(board, cfg, rnd2, ord).move

\* -------------------------------------------------------- inference claims
\* C11: on every board state, wrong flags (which make the constraints
\* inconsistent) included, no cell is in both the safe list and the mine list of
\* csp.infer, and no cell is in both lists of sat.infer.
C11_SafeAndMinesDisjoint ==
  /\ csp_infer(board).safe \cap csp_infer(board).mines = {}
  /\ sat_infer(board).safe \cap sat_infer(board).mines = {}

\* C12: on every board state whose components all have at most 18 cells, every
\* cell csp.infer reports safe is reported safe by sat.infer, and every cell
\* csp.infer reports a mine is reported a mine by sat.infer.
C12_SatCoversCsp ==
  (\A comp \in build_components(sat_extract_constraints(board)) :
     Cardinality(comp) <= MAX_COMPONENT_SIZE) =>
    /\ csp_infer(board).safe \subseteq sat_infer(board).safe
    /\ csp_infer(board).mines \subseteq sat_infer(board).mines

\* the 0/1 assignments of a component that meet every component-local constraint
SatisfyingAssignments(component, constraints) ==
  {a \in [component -> {0, 1}] :
     \A k \in relevant_constraints(component, constraints) :
       Cardinality({c \in k.U : a[c] = 1}) = k.r}

\* what sat.infer owes a component with the satisfying assignments sols: with
\* some and no more than 18 cells, exactly the cells that are 0 in all of them as
\* safe and exactly those that are 1 in all of them as mines; otherwise no cell
Certified(component, sols, res) ==
  IF Cardinality(component) <= MAX_COMPONENT_SIZE /\ sols # {}
  THEN \A c \in component :
         /\ c \in res.safe <=> \A a \in sols : a[c] = 0
         /\ c \in res.mines <=> \A a \in sols : a[c] = 1
  ELSE component \cap (res.safe \cup res.mines) = {}

\* a row of n unknown cells under a row of revealed 1s, on a board 2 by n: the
\* constraints sat._extract_constraints collects there. They link the n cells
\* into one component with one satisfying assignment.
RowConstraints(n) ==
  {Constraint(<<1, k>>, 1, {<<0, j>> : j \in {k - 1, k, k + 1} \cap (0 .. n - 1)}) :
     k \in 0 .. n - 1}

\* the component of 18 cells is solved and every cell of it certified; the one
\* of 19 cells is skipped
ComponentSizeLimit ==
  /\ build_components(RowConstraints(18)) = {{<<0, j>> : j \in 0 .. 17}}
  /\ solve_component({<<0, j>> : j \in 0 .. 17}, RowConstraints(18))
       = [safe |-> {<<0, j>> : j \in {x \in 0 .. 17 : x % 3 # 1}},
          mines |-> {<<0, j>> : j \in {x \in 0 .. 17 : x % 3 = 1}}]
  /\ build_components(RowConstraints(19)) = {{<<0, j>> : j \in 0 .. 18}}
  /\ solve_component({<<0, j>> : j \in 0 .. 18}, RowConstraints(19))
       = [safe |-> {}, mines |-> {}]

\* C13: for every component of at most 18 cells with a satisfying assignment
\* sat.infer reports a cell safe iff it is 0 in every satisfying assignment and a
\* mine iff it is 1 in every one, also when the enumeration stops early because
\* every value set is {0,1}; a component without a satisfying assignment or with
\* more than 18 cells contributes no cell; cells outside every component are not
\* reported; with no revealed number sat.infer returns ([], []).
C13_SatCertifiesForcedCells ==
  /\ \A comp \in build_components(sat_extract_constraints(board)) :
       Certified(comp, SatisfyingAssignments(comp, sat_extract_constraints(board)),
                 sat_infer(board))
  /\ sat_infer(board).safe \cup sat_infer(board).mines
       \subseteq UNION build_components(sat_extract_constraints(board))
  /\ (\A c \in Cells : ~(board.tiles[c] >= 1 /\ board.tiles[c] <= 8)) =>
       sat_infer(board) = [safe |-> {}, mines |-> {}]
  /\ ComponentSizeLimit

\* a board on which one component has several satisfying assignments, and
\* sat.infer certifies a safe cell and a mine in it and leaves a cell undecided
C13_Witness ==
  /\ sat_infer(board).safe # {}
  /\ sat_infer(board).mines # {}
  /\ \E comp \in build_components(sat_extract_constraints(board)) :
       /\ Cardinality(SatisfyingAssignments(comp, sat_extract_constraints(board))) >= 2
       /\ comp \ (sat_infer(board).safe \cup sat_infer(board).mines) # {}

\* -------------------------------------------------------- expansion claims
RECURSIVE ZeroRegion(_, _, _)
\* the cells UNKNOWN on b that are a neighbour of start or of a zero among the
\* cells found so far: the least set R with that property, grown from R
ZeroRegion(b, start, R) ==
  LET zeros == {start} \cup {x \in R : count_adjacent_mines(b, x[1], x[2]) = 0}
      more == {c \in unknown_cells(b) : \E z \in zeros : c \in NeighborSet(z[1], z[2])}
  IN  IF more = R THEN R ELSE ZeroRegion(b, start, more)

\* the expansion e from start on board b revealed the region and nothing else
RevealsRegion(b, region, e) ==
  /\ IsListOf(e.revealed, region)
  /\ \A x \in region : is_revealed(e.b, x[1], x[2]) /\ e.b.tiles[x] # MINE
  /\ \A x \in Cells \ region : e.b.tiles[x] = b.tiles[x]
  /\ \A x \in Cells : b.tiles[x] = FLAGGED => (e.b.tiles[x] = FLAGGED /\ x \notin SeqRange(e.revealed))
  /\ \A x \in b.bombs : b.tiles[x] = UNKNOWN => e.b.tiles[x] = UNKNOWN

\* both expansions from start on board b reveal the region and nothing else
ExpansionRevealsRegion(b, start) ==
  \A pref \in Oracles(b) :
    /\ RevealsRegion(b, ZeroRegion(b, start, {}), bfs_reveal(b, start[1], start[2], pref))
    /\ RevealsRegion(b, ZeroRegion(b, start, {}), dfs_reveal(b, start[1], start[2], pref))

\* C14 as stated: expansion (bfs_reveal or dfs_reveal) started on a revealed zero
\* of a board whose revealed numbers match its mines reveals exactly the cells
\* that were UNKNOWN before the call and neighbour the start or a zero revealed
\* during the call; flagged cells stay flagged and out of the result, mines stay
\* UNKNOWN, the list returned holds the newly revealed cells each once, and all
\* other tiles are unchanged.
C14_ExpansionRevealsRegion ==
  \A start \in Cells :
    (NumbersMatchMines(board) /\ board.tiles[start] = 0) => ExpansionRevealsRegion(board, start)

\* C14 amended: the same, on a board on which game_over is not set.
C14_ExpansionRevealsRegionInPlay ==
  \A start \in Cells :
    (NumbersMatchMines(board) /\ board.tiles[start] = 0 /\ ~board.game_over) =>
      ExpansionRevealsRegion(board, start)

\* a board in play with a revealed zero from which the expansion reveals another
\* zero and a numbered frontier cell, passes over a flag next to the start, and
\* leaves unknown a mine-free cell behind the frontier and the mine
C14_Witness ==
  /\ NumbersMatchMines(board) /\ ~board.game_over
  /\ \E start \in Cells :
       /\ board.tiles[start] = 0
       /\ \E n \in NeighborSet(start[1], start[2]) : board.tiles[n] = FLAGGED
       /\ \E x, y \in SeqRange(bfs_reveal(board, start[1], start[2], {}).revealed) :
            /\ count_adjacent_mines(board, x[1], x[2]) = 0
            /\ count_adjacent_mines(board, y[1], y[2]) > 0
            /\ \E z \in NeighborSet(y[1], y[2]) \ board.bombs :
                 bfs_reveal(board, start[1], start[2], {}).b.tiles[z] = UNKNOWN
  /\ \E m \in board.bombs : board.tiles[m] = UNKNOWN

\* a second bfs_reveal from c, on the board b1 the first left, does nothing
BfsSecondRunIdle(b1, c) ==
  \A pref \in Oracles(b1) :
    bfs_reveal(b1, c[1], c[2], pref) = [b |-> b1, revealed |-> <<>>, opened |-> <<>>]

\* a second dfs_reveal from c, on the board b1 the first left, does nothing
DfsSecondRunIdle(b1, c) ==
  \A pref \in Oracles(b1) :
    dfs_reveal(b1, c[1], c[2], pref) = [b |-> b1, revealed |-> <<>>, opened |-> <<>>]

\* C15: expansion is idempotent: on every board state and from every origin (a
\* zero or not, in bounds or not), bfs_reveal run a second time right after the
\* first leaves the board as the first left it and returns an empty list, and so
\* does dfs_reveal.
C15_ExpansionIdempotent ==
  \A c \in Coords : \A pref \in Oracles(board) :
    /\ BfsSecondRunIdle(bfs_reveal(board, c[1], c[2], pref).b, c)
    /\ DfsSecondRunIdle(dfs_reveal(board, c[1], c[2], pref).b, c)

\* a board in play with a revealed zero from which a first run of either
\* expansion reveals three cells or more, one of them beyond the start's
\* neighbours
C15_Witness ==
  /\ ~board.game_over
  /\ \E c \in Cells :
       /\ board.tiles[c] = 0
       /\ Len(bfs_reveal(board, c[1], c[2], {}).revealed) >= 3
       /\ Len(dfs_reveal(board, c[1], c[2], {}).revealed) >= 3
       /\ SeqRange(dfs_reveal(board, c[1], c[2], {}).revealed) \ NeighborSet(c[1], c[2]) # {}

\* C16: on every board state and from every start cell, bfs_reveal and
\* dfs_reveal, each run on its own copy of the board, end in the same board state
\* and return lists that hold the same set of cells.
C16_BfsDfsAgree ==
  \A c \in Coords : \A pref \in Oracles(board) :
    /\ bfs_reveal(board, c[1], c[2], pref).b = dfs_reveal(board, c[1], c[2], pref).b
    /\ SeqRange(bfs_reveal(board, c[1], c[2], pref).revealed)
         = SeqRange(dfs_reveal(board, c[1], c[2], pref).revealed)

\* ------------------------------------------------------ more board claims
\* C17: after any sequence of flag, unflag and reveal calls on a board whose
\* total is known, remaining_mines() = max(0, total_mines - number of FLAGGED
\* tiles); a successful flag lowers it by one and a successful unflag raises it by
\* one, except where the clamp at 0 holds it; a reveal leaves it; and it is None
\* when the total is unknown.
C17_RemainingMines ==
  /\ [](IF board.total_mines = NoTotal
        THEN remaining_mines(board) = NoTotal
        ELSE remaining_mines(board) = Max(0, board.total_mines - TileCount(board, FLAGGED)))
  /\ [][board.total_mines # NoTotal =>
          /\ (call'.op = "flag" /\ call'.ret) =>
               IF board.total_mines - TileCount(board, FLAGGED) >= 1
               THEN remaining_mines(board') = remaining_mines(board) - 1
               ELSE remaining_mines(board') = 0 /\ remaining_mines(board) = 0
          /\ (call'.op = "unflag" /\ call'.ret) =>
               IF board'.total_mines - TileCount(board', FLAGGED) >= 1
               THEN remaining_mines(board') = remaining_mines(board) + 1
               ELSE remaining_mines(board') = 0 /\ remaining_mines(board) = 0
          /\ call'.op = "reveal" => remaining_mines(board') = remaining_mines(board)
          /\ (call'.op \in {"flag", "unflag"} /\ ~call'.ret) =>
               remaining_mines(board') = remaining_mines(board)]_vars

\* a board with one mine in total and revealed tiles, after the unflag that took
\* it from two flags to one: the count was held at 0 by the clamp
C17_Witness ==
  /\ call.op = "unflag" /\ call.ret
  /\ board.total_mines = 1
  /\ TileCount(board, FLAGGED) = 1
  /\ board.revealed_count > 0
  /\ remaining_mines(board) = 0

\* ------------------------------------------------------- heuristic claims
\* C18: in the map of compute_local_probabilities, every unknown neighbour of a
\* revealed tile whose residual (value minus flagged neighbours) is 0 has
\* probability exactly 0, and every unknown neighbour of a revealed tile whose
\* residual equals its number of unknown neighbours has probability exactly 1,
\* whichever other tiles also cover the cell and in whatever order the revealed
\* tiles are visited.
C18_CertainCellsExact ==
  \A ord \in ScanOrders : \A c \in revealed_cells(board) : \A n \in unknown_neighbors(board, c) :
    /\ board.tiles[c] - flagged_neighbors(board, c) = 0 =>
         /\ n \in compute_local_probabilities(board, ord).has
         /\ compute_local_probabilities(board, ord).p[n][1] = 0
    /\ board.tiles[c] - flagged_neighbors(board, c) = Cardinality(unknown_neighbors(board, c)) =>
         /\ n \in compute_local_probabilities(board, ord).has
         /\ compute_local_probabilities(board, ord).p[n][1]
              = compute_local_probabilities(board, ord).p[n][2]

\* -------------------------------------------------------- placement claims
\* the cells the mines of a deferred board b may go to when (i, j) = c is
\* clicked first: outside c and its neighbours, or outside c alone when the
\* guarantee is off or fewer than total_mines cells lie outside the zone
PlacementCells(b, c) ==
  IF b.first_click_zero /\ Cardinality(OutsideZone(c)) >= b.total_mines
  THEN OutsideZone(c) ELSE Cells \ {c}

\* r is what the first reveal at c owes a board b whose mines are still to be
\* placed
DeferredPlacement(b, c, r) ==
  IF Cardinality(Cells \ {c}) < b.total_mines
  THEN r = [b |-> b, ret |-> FALSE, raised |-> TRUE]
  ELSE /\ r.ret /\ ~r.raised
       /\ r.b.mines_initialized /\ r.b.first_reveal_done
       /\ Cardinality(r.b.bombs) = b.total_mines
       /\ r.b.bombs \subseteq PlacementCells(b, c)
       /\ ~r.b.game_over
       /\ r.b.tiles = [b.tiles EXCEPT ![c] = count_adjacent_mines(r.b, c[1], c[2])]

\* C19: on a board built with total_mines and no mine set, the first successful
\* reveal at (i,j) places exactly total_mines distinct mines, once: none on (i,j),
\* and none on its neighbours unless fewer than total_mines cells lie outside
\* that zone (then only (i,j) is excluded, and every other cell can get one); if
\* fewer than total_mines cells remain with only (i,j) excluded the reveal raises
\* and leaves tiles, counters, mine set, game_over and the placement flags as
\* they were. (With ensure_first_click_zero off only (i,j) is excluded.)
C19_DeferredPlacement ==
  /\ [](~board.mines_initialized =>
          \A c \in Cells : board.tiles[c] = UNKNOWN =>
            /\ \A pref \in Oracles(board) :
                 DeferredPlacement(board, c, reveal(board, c[1], c[2], pref))
            /\ Cardinality(Cells \ {c}) >= board.total_mines =>
                 {reveal(board, c[1], c[2], pref).b.bombs : pref \in Oracles(board)}
                   = {S \in SUBSET PlacementCells(board, c) : Cardinality(S) = board.total_mines})
  /\ [][ /\ (call'.op = "reveal" /\ call'.raised) =>
              (board' = board /\ ~board.mines_initialized /\ ~call'.ret)
         /\ (~board.mines_initialized /\ call'.op = "reveal" /\ call'.ret) =>
              /\ board'.mines_initialized
              /\ Cardinality(board'.bombs) = board.total_mines
              /\ \A c \in Changed(board, board') : board'.bombs \subseteq PlacementCells(board, c)
         /\ (~board.mines_initialized /\ ~board'.mines_initialized) => board'.bombs = {}
         /\ (board.mines_initialized /\ board.first_reveal_done) => board'.bombs = board.bombs
       ]_vars

\* a reveal has raised on a flagged board too dense for its mines to be placed
C19_Witness ==
  /\ call.op = "reveal" /\ call.raised
  /\ ~board.mines_initialized
  /\ board.total_mines = Rows * Cols
  /\ board.flagged_count > 0
  /\ board.bombs = {}

\* C20: on a board built with an explicit mine set and the first-click guarantee
\* on, the first successful reveal at (i,j) moves every mine lying on (i,j) or a
\* neighbour to a cell outside that zone before it counts, keeping the number of
\* mines, so the revealed value is 0 whenever enough mine-free cells lie outside
\* the zone; also when (i,j) holds no mine but a neighbour does.
C20_FirstClickRelocation ==
  [][ ( /\ board.mines_initialized /\ ~board.first_reveal_done /\ board.first_click_zero
        /\ call'.op = "reveal" /\ call'.ret ) =>
        \A c \in Changed(board, board') :
          /\ Cardinality(board'.bombs) = Cardinality(board.bombs)
          /\ Cardinality(OutsideZone(c) \ board.bombs)
               >= Cardinality(board.bombs \ OutsideZone(c)) =>
               /\ board'.bombs \subseteq OutsideZone(c)
               /\ board.bombs \cap OutsideZone(c) \subseteq board'.bombs
               /\ board'.tiles[c] = 0
    ]_vars

\* ------------------------------------------------------ extraction claims
\* the constraints of the revealed tiles 1..8 with an unknown neighbour: U the
\* UNKNOWN neighbours, r the value minus the FLAGGED neighbours, held in 0 .. |U|
NumberConstraints(b) ==
  {[center |-> c, U |-> unknown_neighbors(b, c),
    r |-> Max(0, Min(b.tiles[c] - flagged_neighbors(b, c), Cardinality(unknown_neighbors(b, c))))] :
     c \in {d \in Cells : b.tiles[d] >= 1 /\ b.tiles[d] <= 8 /\ unknown_neighbors(b, d) # {}}}

\* C21: the constraint extraction of each of the CSP, SAT and Monte-Carlo
\* engines emits exactly one constraint (U, r) for every revealed tile 1..8 with
\* an unknown neighbour, U its UNKNOWN neighbours and r = clamp(v - F, 0, |U|),
\* and none for a revealed zero or a tile showing 9.
C21_ConstraintExtraction ==
  /\ csp_extract_constraints(board) = NumberConstraints(board)
  /\ sat_extract_constraints(board) = NumberConstraints(board)
  /\ mc_extract_constraints(board) = NumberConstraints(board)

\* the ordered pairs (A, B) of constraints with A.U a proper subset of B.U
SubsetPairs(constraints) ==
  {p \in constraints \X constraints : p[1].U \subseteq p[2].U /\ p[1].U # p[2].U}

\* the cells the stated rules make safe: U of a constraint with r = 0, and
\* B.U \ A.U of a pair with B.r - A.r = 0
RuleSafe(constraints) ==
  UNION {k.U : k \in {x \in constraints : x.r = 0}}
    \cup UNION {p[2].U \ p[1].U : p \in {q \in SubsetPairs(constraints) : q[2].r - q[1].r = 0}}

\* the cells the stated rules make mines: U of a constraint with r = |U|, and
\* B.U \ A.U of a pair with B.r - A.r = |B.U \ A.U|
RuleMines(constraints) ==
  UNION {k.U : k \in {x \in constraints : x.r = Cardinality(x.U)}}
    \cup UNION {p[2].U \ p[1].U :
                  p \in {q \in SubsetPairs(constraints) :
                           q[2].r - q[1].r = Cardinality(q[2].U \ q[1].U)}}

\* the pair is inconsistent: B.r - A.r < 0 or > |B.U \ A.U|
Inconsistent(p) == p[2].r - p[1].r < 0 \/ p[2].r - p[1].r > Cardinality(p[2].U \ p[1].U)

\* no cell occurs twice in the list
NoRepeat(seq) == \A x, y \in 1 .. Len(seq) : seq[x] = seq[y] => x = y

\* the config that runs the CSP engine alone
CspOnly ==
  [DEFAULT_CONFIG EXCEPT !.use_sat = FALSE, !.use_probability = FALSE, !.use_monte_carlo = FALSE]

\* C22: csp.infer returns as safe exactly U of every constraint with r = 0 and
\* E = B.U \ A.U of every ordered pair with A.U a proper subset of B.U and
\* B.r - A.r = 0, and as mines exactly U of every constraint with r = |U| and E of
\* every such pair with B.r - A.r = |E|; a pair with B.r - A.r < 0 or > |E|
\* contributes nothing; and the list step passes on holds each cell once.
C22_CspRules ==
  /\ csp_infer(board).safe = RuleSafe(csp_extract_constraints(board))
  /\ csp_infer(board).mines = RuleMines(csp_extract_constraints(board))
  /\ \A p \in SubsetPairs(csp_extract_constraints(board)) :
       Inconsistent(p) => subset_implications(p[1], p[2]) = [safe |-> {}, mines |-> {}]
  /\ \A ord \in ScanOrders : NoRepeat(step(board, CspOnly, <<>>, ord).move.cells)

\* a board in play on which a subset pair makes a cell safe that no single
\* constraint does
C22_Witness ==
  /\ ~board.game_over
  /\ \E p \in SubsetPairs(csp_extract_constraints(board)) :
       /\ p[2].r - p[1].r = 0
       /\ \E c \in p[2].U \ p[1].U :
            \A k \in csp_extract_constraints(board) : c \in k.U => k.r # 0

\* -------------------------------------------------------- component claims
\* the cell sets are pairwise disjoint
PairwiseDisjoint(components) ==
  \A x, y \in components : x # y => x \cap y = {}

\* the component cannot be cut in two parts that no constraint joins
ConnectedBy(constraints, component) ==
  \A part \in SUBSET component :
    (part # {} /\ part # component) =>
      \E k \in constraints : k.U \cap part # {} /\ k.U \cap (component \ part) # {}

\* the components partition the constraints
PartitionsConstraints(constraints, components) ==
  /\ PairwiseDisjoint(components)
  /\ \A comp \in components : comp # {} /\ ConnectedBy(constraints, comp)
  /\ \A k \in constraints : Cardinality({comp \in components : k.U \subseteq comp}) = 1

\* C23: the component builder of the SAT and of the Monte-Carlo engine
\* partitions the constraints: the cell sets returned are pairwise disjoint, each
\* is connected under 'co-occurs in some constraint', and the cell set U of every
\* extracted constraint lies in exactly one of them, a single-cell U included.
C23_ComponentsPartition ==
  /\ PartitionsConstraints(sat_extract_constraints(board),
                           build_components(sat_extract_constraints(board)))
  /\ PartitionsConstraints(mc_extract_constraints(board),
                           mc_build_components(mc_extract_constraints(board)))

\* ------------------------------------------------- expansion on a mine
\* the expansion e, run on board b, has revealed a mine and stopped at once: the
\* mine is the last cell of the list returned and the last cell revealed
StopsAtMine(b, e) ==
  (~b.game_over /\ e.b.game_over) =>
    /\ e.revealed # <<>>
    /\ e.revealed[Len(e.revealed)] = e.b.hit_mine_at
    /\ e.opened[Len(e.opened)] = e.b.hit_mine_at
    /\ Changed(b, e.b) = SeqRange(e.revealed)

\* C24: if expansion reveals a mine (a revealed zero with an UNKNOWN mine
\* neighbour, as on a board whose numbers were loaded from a file), bfs_reveal and
\* dfs_reveal both stop at once: the mine is appended to the result as its last
\* element and no other cell is revealed after it in that call.
C24_ExpansionStopsAtMine ==
  \A c \in Cells : \A pref \in Oracles(board) :
    /\ StopsAtMine(board, bfs_reveal(board, c[1], c[2], pref))
    /\ StopsAtMine(board, dfs_reveal(board, c[1], c[2], pref))

\* ----------------------------------------------------------- guess claims
\* c is a cell of the set S that is least in S by probability, then by distance
\* to the centre, then by coordinate
LeastByProbabilityDistanceCoordinate(probs, S, c) ==
  /\ c \in S
  /\ \A d \in S : ~FracLess(probs[d], probs[c])
  /\ \A d \in S :
       ~FracLess(probs[c], probs[d]) => distance_to_center(c) <= distance_to_center(d)
  /\ \A d \in S :
       (~FracLess(probs[c], probs[d]) /\ distance_to_center(d) = distance_to_center(c)) =>
         (c = d \/ TupleLess(c, d))

\* C25: the cell the heuristic layer guesses is an UNKNOWN cell of least
\* heuristic mine probability; among those, one nearest the board centre; and
\* among those, the lexicographically smallest coordinate.
C25_HeuristicGuess ==
  \A ord \in ScanOrders :
    unknown_cells(board) # {} =>
      LeastByProbabilityDistanceCoordinate(compute_all_probabilities(board, ord),
                                           unknown_cells(board),
                                           probability_choose_cell(board, ord))

\* ------------------------------------------------------------- the sampler
\* most flags on a board the sampler is run on
MaxSampledFlags == 1

RECURSIVE RevealAll(_, _)
\* board.reveal on each cell of the list in turn
RevealAll(b, cells) ==
  IF cells = <<>> THEN b ELSE RevealAll(reveal(b, cells[1][1], cells[1][2], {}).b, Tail(cells))

RECURSIVE FlagAll(_, _)
\* board.flag on each cell of the list in turn
FlagAll(b, cells) ==
  IF cells = <<>> THEN b ELSE FlagAll(flag(b, cells[1][1], cells[1][2]).b, Tail(cells))

\* Board(rows, cols, bombs=B, ensure_first_click_zero=False) after the cells of R
\* were revealed and those of F flagged
PlayedBoard(B, R, F) ==
  FlagAll(RevealAll(NewBoard(TRUE, B, NoTotal, FALSE), SeqOf(R, "rowmajor")), SeqOf(F, "rowmajor"))

\* a _sample_component call on component, at the top of its while loop or, with
\* done set, returned
Sampling(component, acc, done, probs) ==
  [op |-> "_sample_component", ret |-> done, raised |-> FALSE, targets |-> <<>>, log |-> <<>>,
   component |-> component, attempts |-> acc.attempts, successes |-> acc.successes,
   counts |-> acc.counts, samples |-> acc.samples, probs |-> probs]

\* the constraints _sample_component is given for the component
SampledConstraints(b, component) ==
  constraints_for_component(component, mc_extract_constraints(b))

\* a board in the middle of a game, on which compute_probabilities is about to run
InitSampler ==
  /\ \E B \in SUBSET Cells : \E R \in SUBSET Cells : \E F \in SUBSET (Cells \ R) :
       /\ Cardinality(B) <= MaxMines
       /\ Cardinality(F) <= MaxSampledFlags
       /\ board = PlayedBoard(B, R, F)
       /\ hist = [honest |-> F \subseteq B]
  /\ call = Call("compute_probabilities", FALSE, FALSE)
  /\ move = NoMove

\* compute_probabilities calls _sample_component on a component
SampleComponent(component) ==
  /\ call.op = "compute_probabilities"
  /\ component \in mc_build_components(mc_extract_constraints(board))
  /\ SampledConstraints(board, component) # {}
  /\ call' = Sampling(component,
                      [attempts |-> 0, successes |-> 0,
                       counts |-> [c \in component |-> 0], samples |-> <<>>],
                      FALSE, <<>>)
  /\ UNCHANGED <<board, hist, move>>

\* one pass of the while loop of _sample_component, with the sample count of
\* compute_probabilities
SampleAttempt ==
  /\ call.op = "_sample_component" /\ ~call.ret
  /\ call.successes < DefaultSamples /\ call.attempts < DefaultSamples * 5
  /\ \E draw \in SearchDraws(call.component) :
       call' = Sampling(call.component,
                        sample_attempt(call,
                                       random_assignment_search(
                                         call.component,
                                         SampledConstraints(board, call.component), draw)),
                        FALSE, <<>>)
  /\ UNCHANGED <<board, hist, move>>

\* the while loop of _sample_component has ended and the call returns
SampleReturn ==
  /\ call.op = "_sample_component" /\ ~call.ret
  /\ ~(call.successes < DefaultSamples /\ call.attempts < DefaultSamples * 5)
  /\ call' = Sampling(call.component, call, TRUE, sample_result(call.component, call).probs)
  /\ UNCHANGED <<board, hist, move>>

NextSampler ==
  \/ \E component \in SUBSET Cells : SampleComponent(component)
  \/ SampleAttempt
  \/ SampleReturn

\* the sampler at work on a component of a board in play
SpecSampler == InitSampler /\ [][NextSampler]_vars

\* ---------------------------------------------------------- sampler claims
\* a is a 0/1 value for every cell of the component that meets every constraint
\* exactly
MeetsConstraints(component, constraints, a) ==
  /\ a \in [component -> {0, 1}]
  /\ \A k \in constraints : Cardinality({c \in k.U : a[c] = 1}) = k.r

\* some 0/1 values of the cells of the component meet every constraint
Satisfiable(component, constraints) ==
  \E a \in [component -> {0, 1}] : MeetsConstraints(component, constraints, a)

\* the call c of the sampler, running or returned, has counted what is stated
CountedAsStated(c, constraints) ==
  /\ c.attempts <= 5 * DefaultSamples
  /\ c.successes <= DefaultSamples
  /\ c.successes = Len(c.samples)
  /\ c.successes <= c.attempts
  /\ \A n \in 1 .. Len(c.samples) : MeetsConstraints(c.component, constraints, c.samples[n])
  /\ \A x \in c.component :
       c.counts[x] = Cardinality({n \in 1 .. Len(c.samples) : c.samples[n][x] = 1})
  /\ c.successes < c.attempts => ~Satisfiable(c.component, constraints)

\* the call c of the sampler has returned what is stated
ReturnedAsStated(c, constraints) ==
  IF c.successes = 0
  THEN /\ c.probs = <<>>
       /\ c.attempts = 5 * DefaultSamples
       /\ ~Satisfiable(c.component, constraints)
  ELSE /\ c.probs = [x \in c.component |->
                       <<Cardinality({n \in 1 .. c.successes : c.samples[n][x] = 1}), c.successes>>]
       /\ c.probs = sample_component(c.component, constraints, c.successes, c.samples)

\* C26: for each component the Monte-Carlo sampler makes at most 5N attempts and
\* counts at most N samples; every counted sample gives every cell of the
\* component 0 or 1 and meets every component-local constraint exactly; an attempt
\* that reaches a dead end is discarded; if no attempt succeeds (unsatisfiable
\* constraints) the cells of the component are absent from the map returned,
\* otherwise each maps to (samples with value 1) / (samples counted).
C26_SamplerCounts ==
  /\ [](call.op = "_sample_component" =>
          /\ CountedAsStated(call, SampledConstraints(board, call.component))
          /\ call.ret => ReturnedAsStated(call, SampledConstraints(board, call.component)))
  /\ [][(call.op = "_sample_component" /\ call'.op = "_sample_component" /\ ~call'.ret) =>
          /\ call'.attempts = call.attempts + 1
          /\ \/ /\ call'.successes = call.successes + 1
                /\ Len(call'.samples) = Len(call.samples) + 1
                /\ SubSeq(call'.samples, 1, Len(call.samples)) = call.samples
             \/ /\ call'.successes = call.successes
                /\ call'.samples = call.samples
                /\ call'.counts = call.counts]_vars

\* the sampler has returned from a component on which it counted two different
\* samples: some cell is a mine in one of the two
C26_Witness ==
  /\ call.op = "_sample_component" /\ call.ret
  /\ call.successes = DefaultSamples
  /\ call.samples[1] # call.samples[2]
  /\ \E x \in call.component : call.probs[x] = <<1, 2>>

\* ------------------------------------------------------- soundness claims
\* C27: from a freshly constructed board (explicit mine set or deferred
\* placement) changed only by solve_step applied to what step returned, under any
\* config: every FLAGGED cell is a mine; a "reveal_safe" action, the expansion it
\* triggers included, never reveals a mine; and game_over becomes true only
\* while a "guess" is applied.
C27_SolverSound ==
  /\ [](\A c \in Cells : board.tiles[c] = FLAGGED => c \in board.bombs)
  /\ [][call'.op = "solve_step" =>
          /\ move.action = "reveal_safe" =>
               /\ \A c \in Changed(board, board') : board'.tiles[c] # MINE /\ c \notin board'.bombs
               /\ board'.game_over = board.game_over
          /\ move.action = "flag_mines" => Changed(board, board') \subseteq board.bombs
          /\ (~board.game_over /\ board'.game_over) => move.action = "guess"]_vars

\* the tiles before a solve_step call that revealed the cells of log
TilesBefore(b, log) ==
  [b EXCEPT !.tiles = [c \in Cells |-> IF c \in SeqRange(log) THEN UNKNOWN ELSE b.tiles[c]]]

\* solve_step has revealed the cells csp.infer reported safe, on a board in play
\* on which the solver has placed a flag
C27_Witness ==
  /\ call.op = "solve_step" /\ call.ret
  /\ ~board.game_over
  /\ call.targets # <<>>
  /\ \A k \in 1 .. Len(call.targets) : board.tiles[call.targets[k]] >= 0
  /\ \E c \in Cells : board.tiles[c] = FLAGGED
  /\ SeqRange(call.targets) = csp_infer(TilesBefore(board, call.log)).safe

\* ----------------------------------------------------------- the solver loop
\* cli.run_solver: max_iterations
max_iterations == 100

\* the configs run_solver is given: an engine selection and an expansion
RunConfigs == {[cfg EXCEPT !.expansion = e] : cfg \in SolverConfigs, e \in {"bfs", "dfs"}}

\* the boards the constructor builds: Board(rows, cols), Board(rows, cols, bombs=B),
\* Board(rows, cols, total_mines=n), each with either value of ensure_first_click_zero
ConstructedBoards ==
  {NewBoard(FALSE, {}, NoTotal, fcz) : fcz \in BOOLEAN}
    \cup {NewBoard(TRUE, B, NoTotal, fcz) :
            B \in {X \in SUBSET Cells : Cardinality(X) <= MaxMines}, fcz \in BOOLEAN}
    \cup {NewBoard(FALSE, {}, n, fcz) : n \in (1 .. MaxMines) \cup {Rows * Cols - 1, Rows * Cols}, fcz \in BOOLEAN}

\* run_solver(board, label, strategy_config) is entered: iteration = 0
InitRunSolver ==
  /\ board \in ConstructedBoards
  /\ \E cfg \in RunConfigs : hist = [honest |-> TRUE, iteration |-> 0, config |-> cfg]
  /\ call = Call("Board", FALSE, FALSE)
  /\ move = NoMove

\* control is at the while test: run_solver was entered, or solve_step returned
\* and none of the breaks after it was taken
AtLoopHead ==
  \/ call.op = "Board"
  \/ call.op = "solve_step" /\ ~call.raised /\ ~board.game_over /\ call.ret

\* the while test of run_solver
WhileCondition == ~is_finished(board) /\ hist.iteration < max_iterations

\* the break after step: nothing to apply
NothingToApply == move.action \in {"none", "game_over"} \/ move.cells = <<>>

\* the head of one pass of the loop: iteration += 1, break on game_over, else
\* step(board, config)
RunStep ==
  /\ AtLoopHead
  /\ WhileCondition
  /\ hist' = [hist EXCEPT !.iteration = @ + 1]
  /\ IF board.game_over
     THEN /\ board' = board
          /\ call' = Call("run_solver", FALSE, FALSE)
          /\ move' = move
     ELSE \E ord \in ScanOrders : \E rnd \in DrawsFor(board, hist.config) :
            \E s \in {step(board, hist.config, rnd, ord)} :
              /\ board' = s.b
              /\ call' = Call("step", FALSE, FALSE)
              /\ move' = s.move

\* the rest of the pass: solve_step(board, action, cells, config)
RunSolveStep ==
  /\ call.op = "step"
  /\ ~NothingToApply
  /\ \E pref \in Oracles(board) :
       \E r \in {solve_step(board, move.action, move.cells, hist.config, pref)} :
         /\ board' = r.b
         /\ call' = [Call("solve_step", r.ret, r.raised) EXCEPT
                       !.targets = move.cells, !.log = r.log]
         /\ hist' = [hist EXCEPT !.honest =
                       @ /\ (move.action = "flag_mines" => SeqRange(r.log) \subseteq board.bombs)]
         /\ move' = NoMove

\* the loop is left: the while test fails, a break is taken, or the ValueError
\* of a reveal ends run_solver
RunReturn ==
  /\ \/ AtLoopHead /\ ~WhileCondition
     \/ call.op = "step" /\ NothingToApply
     \/ call.op = "solve_step" /\ (call.raised \/ board.game_over \/ ~call.ret)
  /\ call' = Call("run_solver", FALSE, call.raised)
  /\ UNCHANGED <<board, hist, move>>

NextRunSolver ==
  \/ RunStep
  \/ RunSolveStep
  \/ RunReturn

\* run_solver has not returned
LoopRuns == call.op # "run_solver"

\* run_solver on a board fresh from the constructor. The loop is sequential
\* code, so it keeps taking steps until it returns: weak fairness of
\* NextRunSolver, written out with LoopRuns for ENABLED <<NextRunSolver>>_vars
\* (one of the three actions can be taken in every state where the loop runs,
\* and none after it has returned)
SpecRunSolver ==
  InitRunSolver /\ [][NextRunSolver]_vars /\ ([]<>~LoopRuns \/ []<><<LoopRuns>>_vars)

\* ----------------------------------------------------------- progress claims
\* the pair step has just returned, on a board in play with an unknown cell,
\* is a non-empty list of UNKNOWN cells
StepGivesUnknownCells ==
  (call.op = "step" /\ ~board.game_over /\ unknown_cells(board) # {}) =>
    /\ move.cells # <<>>
    /\ \A k \in 1 .. Len(move.cells) : board.tiles[move.cells[k]] = UNKNOWN

\* this step is a solve_step call on a board in play with an unknown cell
SolveStepInPlay == call'.op = "solve_step" /\ ~board.game_over /\ unknown_cells(board) # {}

\* this solve_step call returns True and leaves fewer UNKNOWN cells
SolveStepProgress ==
  /\ call'.ret
  /\ ~call'.raised
  /\ TileCount(board', UNKNOWN) < TileCount(board, UNKNOWN)

\* the mines of the board fit on it with one cell to spare
Placeable(b) == b.total_mines <= Rows * Cols - 1

\* run_solver has left its loop on game_over, on is_finished, or on the action "none"
LoopEnded ==
  /\ call.op = "run_solver"
  /\ board.game_over \/ is_finished(board) \/ move.action = "none"

\* the loop on a board whose mines can be placed ends so, and within rows*cols passes
LoopTerminates ==
  /\ [](hist.iteration <= Rows * Cols)
  /\ []((call.op = "run_solver" /\ Placeable(board)) => LoopEnded)
  /\ (Placeable(board) => <>LoopEnded)

\* C28 as stated: in every state with game_over false and an UNKNOWN cell, step
\* returns a non-empty list of UNKNOWN cells and solve_step applied to it returns
\* True and strictly decreases the number of UNKNOWN cells, on every board; and
\* the loop on a board with total_mines <= rows*cols - 1 ends on game_over,
\* is_finished or "none" within rows*cols passes.
C28_LoopProgressEveryBoard ==
  /\ []StepGivesUnknownCells
  /\ [][SolveStepInPlay => SolveStepProgress]_vars
  /\ LoopTerminates

\* C28, amended: the same, with the progress of solve_step claimed only on
\* boards whose declared mine count leaves a cell free (total_mines <=
\* rows*cols - 1); on a board declared full the first reveal raises ValueError
\* and solve_step does not return.
C28_LoopProgress ==
  /\ []StepGivesUnknownCells
  /\ [][(SolveStepInPlay /\ Placeable(board)) => SolveStepProgress]_vars
  /\ LoopTerminates

\* the loop has ended with a win after four or more passes, one of which
\* placed a flag
C28_Witness ==
  /\ call.op = "run_solver"
  /\ is_finished(board)
  /\ ~board.game_over
  /\ hist.iteration >= 4
  /\ board.flagged_count > 0

\* ------------------------------------------------------ play with expansion
\* bfs_reveal(board, i, j) or dfs_reveal(board, i, j), called on any cell
Expand(c, cfg) ==
  \E pref \in Oracles(board) :
    LET e == expansion_fn(cfg, board, c[1], c[2], pref)
    IN  /\ board' = e.b
        /\ call' = Call(cfg.expansion, e.revealed # <<>>, FALSE)
        /\ hist' = hist
        /\ move' = move

NextPlay ==
  \/ Next
  \/ \E c \in Coords : \E cfg \in ExpansionConfigs : Expand(c, cfg)

\* a constructor-built board under reveal, flag, unflag and the two expansions
SpecPlay == InitConstructor /\ [][NextPlay]_vars

\* ------------------------------------------------------------ counter claims
\* the REVEALED tiles of a board
RevealedTiles(b) == {c \in Cells : b.tiles[c] >= 0}

\* C29: after any sequence of reveal, flag, unflag and expansion calls on a
\* constructor-built board the revealed count equals the number of REVEALED
\* tiles, the flagged count equals the number of FLAGGED tiles, and REVEALED +
\* FLAGGED + UNKNOWN tiles = rows*cols; no call changes a REVEALED tile, and no
\* call resets game_over.
C29_CountersConsistent ==
  /\ [](/\ board.revealed_count = Cardinality(RevealedTiles(board))
        /\ revealed_cells(board) = RevealedTiles(board)
        /\ flagged_count(board) = TileCount(board, FLAGGED)
        /\ Cardinality(RevealedTiles(board)) + TileCount(board, FLAGGED)
             + Cardinality(unknown_cells(board)) = Rows * Cols)
  /\ [][/\ \A c \in RevealedTiles(board) : board'.tiles[c] = board.tiles[c]
        /\ board.game_over => board'.game_over]_vars

\* an expansion has just opened cells on a board that carries a flag and has
\* a mine: the counts are then 1 flag and 3 or more revealed
C29_Witness ==
  /\ call.op \in {"bfs", "dfs"}
  /\ call.ret
  /\ board.bombs # {}
  /\ board.flagged_count = 1
  /\ board.revealed_count >= 3

\* ------------------------------------------------------------ region claims
\* C30: on a board fresh from the constructor to which only step's output is
\* applied with solve_step, with either expansion, after every solve_step call
\* no REVEALED tile with value 0 has an UNKNOWN neighbour.
C30_ZeroRegionsOpened ==
  call.op = "solve_step" =>
    \A c \in Cells : board.tiles[c] = 0 => unknown_neighbors(board, c) = {}

\* a solve_step call has just revealed a zero and expanded from it, on a board
\* with a mine, leaving unknown cells behind the numbered frontier
C30_Witness ==
  /\ call.op = "solve_step" /\ call.ret
  /\ ~board.game_over
  /\ board.bombs # {}
  /\ Len(call.log) >= 3
  /\ board.tiles[call.log[1]] = 0
  /\ \E c \in Cells : board.tiles[c] = UNKNOWN /\ c \notin board.bombs

====
